---- MODULE Spec2Model ----
(***************************************************************************)
(* Word-resolution cache and session-state layer of the Zenn Hack browser  *)
(* extension: the durable key-value store (browser.storage.local), the     *)
(* display-side wrappers of lib/storage.ts, the background script's        *)
(* message handlers and the auth hook that feeds the credential keys.      *)
(*                                                                         *)
(* Every asynchronous function is split at its awaits: one action per      *)
(* store operation landing, per continuation and per network response.     *)
(***************************************************************************)
EXTENDS Integers, Sequences, FiniteSets, TLC

\* ------------------------------------------------------------------ bounds
\* number of display-side wordCacheStorage calls started in one run
MaxCalls == 3
\* the clock runs up to MaxEpochs expiry periods
MaxEpochs == 1
\* number of WORD_DETECTED messages the background handles in one run
MaxDetected == 2
\* auth state changes that may wait for the listener callback to begin
MaxPending == 1
\* refresh timers of the useWordData hook that may be pending at once
MaxTimers == 1
\* longest string the user types into the word field
MaxLen == 2

\* -------------------------------------------------------- program constants
\* background script: const CACHE_EXPIRY = 60 * 60 * 1000
CACHE_EXPIRY == 3600000
\* lib/storage.ts: wordCacheStorage.CACHE_EXPIRY: 60 * 60 * 1000
WordCacheExpiry == 3600000
\* lib/api.ts: ApiClient constructor defaults
retryAttempts == 3
retryDelay == 1000

VARIABLES
  store,           \* browser.storage.local: one value per fixed key
  now,             \* Date.now()
  call,            \* the display context's current wordCacheStorage call
  calls,           \* number of wordCacheStorage calls started so far
  lastCacheWrite,  \* history: the latest landed write of the wordCache key
  res,             \* background WORD_DETECTED handlers in flight, by activation
  detected,        \* number of WORD_DETECTED messages handled so far
  fb,              \* Firebase auth.currentUser
  cbq,             \* auth state changes whose listener callback has not begun
  hook,            \* the useAuth operation in progress (handleSignIn/Out)
  cb,              \* the running onAuthStateChange callback
  sad,             \* background SET_AUTH_DATA handlers in flight, by sender
  ga,              \* the current authStorage.getAuthData call
  add,             \* the background ADD_FLASHCARD handler in flight
  addLog,          \* history: the last response to an ADD_FLASHCARD, by cause
  lastAuthWrite,   \* history: the latest landed write of a credential key
  wd,              \* the useWordData hook: its React state and running call
  timers,          \* pending setTimeout(refreshCurrentWord, 1000) timers
  gcw,             \* the display's current read of the slot
  gad,             \* the background GET_AUTH_DATA handler in flight
  sc,              \* the current settingsStorage call
  rq,              \* the current ApiClient.request call
  sm,              \* the current StorageManager.get/set call
  awc              \* the useWordData hook's running addWordToCollection call

cacheVars == <<call, calls>>
resVars == <<res, detected>>
authVars == <<fb, cbq, hook, cb, sad, ga, add, addLog, lastAuthWrite>>
dispVars == <<wd, timers, gcw, gad>>
vars == <<store, now, call, calls, lastCacheWrite, res, detected,
          fb, cbq, hook, cb, sad, ga, add, addLog, lastAuthWrite,
          wd, timers, gcw, gad, sc, rq, sm, awc>>

\* browser.storage.local after installation: no key is set
EmptyStore ==
  [authToken |-> "absent", userId |-> "absent", userEmail |-> "absent",
   currentWord |-> <<>>, wordCache |-> <<>>, settings |-> <<>>]

\* ------------------------------------------------------------------ values
\* An optional value is a sequence of length 0 (absent/undefined) or 1.
None == <<>>
Some(v) == <<v>>

\* Words are sequences of characters, so that case and blanks are real.
LowerChar(c) == IF c = "C" THEN "c" ELSE c

\* a case swap: lowers upper case and raises lower case
toLowerCase_swapCase(w) ==
  [i \in 1..Len(w) |->
     IF w[i] = "C" THEN "c" ELSE IF w[i] = "c" THEN "C" ELSE w[i]]

\* String.prototype.toLowerCase
toLowerCase(w) == [i \in 1..Len(w) |-> LowerChar(w[i])]

\* String.prototype.trim
RECURSIVE trimStart(_)
trimStart(w) == IF w # <<>> /\ Head(w) = " " THEN trimStart(Tail(w)) ELSE w
RECURSIVE trimEnd(_)
trimEnd(w) ==
  IF w # <<>> /\ w[Len(w)] = " " THEN trimEnd(SubSeq(w, 1, Len(w) - 1)) ELSE w
trim(w) == trimEnd(trimStart(w))

\* the canonical WordKey of the data model: trimmed and lowercased
normalize(w) == toLowerCase(trim(w))

cat == <<"c", "a", "t">>
Cat == <<"C", "a", "t">>
\* the words a caller passes to the cache wrappers
CacheWords == {cat, Cat}
\* what the user selects or types; the senders lowercase it (and only that)
UserWords == {cat, Cat, <<" ">> \o cat}
DetectedWords == {toLowerCase(w) : w \in UserWords}

\* Lexical records are opaque; the API body carries no cachedAt field.
Records == {"r1", "r2"}
WordData(r) == [rec |-> r, cachedAt |-> None]

\* the instants the clock is observed at: the start, and for each epoch the
\* last millisecond before a whole number of expiry periods and that instant
TimePoints ==
  {0} \cup {e * CACHE_EXPIRY - d : e \in 1..MaxEpochs, d \in {0, 1}}

EmptyCache == [w \in {} |-> WordData("r1")]

\* `value || {}` of the wordCache key
CacheOrEmpty(v) == IF v = None THEN EmptyCache ELSE v[1]

\* the insertion that stamps every entry of the map anew
PutEntry_restamp(cache, word, data, t) ==
  [k \in DOMAIN cache \cup {word} |->
     IF k = word THEN [data EXCEPT !.cachedAt = Some(t)]
     ELSE [cache[k] EXCEPT !.cachedAt = Some(t)]]

\* cache[word] = {...data, cachedAt: Date.now()}
PutEntry(cache, word, data, t) ==
  [k \in DOMAIN cache \cup {word} |->
     IF k = word THEN [data EXCEPT !.cachedAt = Some(t)] ELSE cache[k]]

\* the freshness test with the boundary instant counted as fresh
IsFresh_inclusive(entry, t, expiry) ==
  /\ entry.cachedAt # None
  /\ t - entry.cachedAt[1] <= expiry

\* Date.now() - cachedData.cachedAt < expiry (NaN when cachedAt is undefined)
IsFresh(entry, t, expiry) ==
  /\ entry.cachedAt # None
  /\ t - entry.cachedAt[1] < expiry

\* ------------------------------------------- lib/storage.ts wordCacheStorage
\* the lookup that returns an entry of any age
getCachedWord_stale(cache, word, t) ==
  IF word \in DOMAIN cache THEN Some(cache[word]) ELSE None

\* getCachedWord once the map is read: the entry, or null
getCachedWord(cache, word, t) ==
  IF word \in DOMAIN cache /\ IsFresh(cache[word], t, WordCacheExpiry)
  THEN Some(cache[word])
  ELSE None

\* the rebuild that keeps an entry whose age equals the expiry
cleanExpiredCache_inclusive(cache, t) ==
  LET keep == {w \in DOMAIN cache : t - cache[w].cachedAt[1] <= WordCacheExpiry}
  IN  [w \in keep |-> cache[w]]

\* cleanExpiredCache once the map is read: the rebuilt map
cleanExpiredCache(cache, t) ==
  LET keep == {w \in DOMAIN cache : t - cache[w].cachedAt[1] < WordCacheExpiry}
  IN  [w \in keep |-> cache[w]]

\* no landed write of wordCache yet
NoWrite ==
  [op |-> "none", word |-> <<>>, rec |-> "r1", stamp |-> 0, doneAt |-> 0]

\* The display context awaits each wrapper call before the next one.
\* read is history: the map cleanExpiredCache read before rebuilding it.
IdleCall ==
  [op |-> "none", pc |-> "idle", word |-> <<>>, data |-> WordData("r1"),
   cache |-> EmptyCache, result |-> None, stamp |-> 0, t1 |-> 0,
   after |-> NoWrite, read |-> EmptyCache]

CanStart ==
  /\ call.pc \in {"idle", "done"}
  /\ calls < MaxCalls

\* wordCacheStorage.getCachedWord(word): issues StorageManager.get(wordCache)
Call_getCachedWord(w) ==
  /\ CanStart
  /\ call' = [IdleCall EXCEPT !.op = "getCachedWord", !.pc = "get", !.word = w]
  /\ calls' = calls + 1
  /\ UNCHANGED <<store, now, lastCacheWrite, resVars, authVars, dispVars,
                 sc,
                 rq,
                 sm, awc>>

\* wordCacheStorage.setCachedWord(word, data)
Call_setCachedWord(w, r) ==
  /\ CanStart
  /\ call' = [IdleCall EXCEPT !.op = "setCachedWord", !.pc = "get",
                              !.word = w, !.data = WordData(r)]
  /\ calls' = calls + 1
  /\ UNCHANGED <<store, now, lastCacheWrite, resVars, authVars, dispVars,
                 sc,
                 rq,
                 sm, awc>>

\* wordCacheStorage.cleanExpiredCache()
Call_cleanExpiredCache ==
  /\ CanStart
  /\ call' = [IdleCall EXCEPT !.op = "cleanExpiredCache", !.pc = "get"]
  /\ calls' = calls + 1
  /\ UNCHANGED <<store, now, lastCacheWrite, resVars, authVars, dispVars,
                 sc,
                 rq,
                 sm, awc>>

\* StorageManager.get(wordCache) resolves with the stored map
StorageGetWordCache ==
  /\ call.pc = "get"
  /\ call' = [call EXCEPT !.pc = "cont",
                          !.cache = CacheOrEmpty(store.wordCache),
                          !.after = lastCacheWrite]
  /\ UNCHANGED <<store, now, calls, lastCacheWrite, resVars, authVars, dispVars,
                 sc,
                 rq,
                 sm, awc>>

\* the read that deletes the entry it finds expired
getCachedWord_return_evict ==
  /\ call.pc = "cont" /\ call.op = "getCachedWord"
  /\ call' = [call EXCEPT !.pc = "done", !.t1 = now,
                          !.result = getCachedWord(call.cache, call.word, now)]
  /\ store' = IF call.word \in DOMAIN call.cache
                  /\ getCachedWord(call.cache, call.word, now) = None
               THEN [store EXCEPT !.wordCache =
                       Some([w \in DOMAIN call.cache \ {call.word} |-> call.cache[w]])]
               ELSE store
  /\ UNCHANGED <<now, calls, lastCacheWrite, resVars, authVars, dispVars,
                 sc,
                 rq,
                 sm, awc>>

\* getCachedWord after its await: compares with Date.now() and returns
getCachedWord_return ==
  /\ call.pc = "cont" /\ call.op = "getCachedWord"
  /\ call' = [call EXCEPT !.pc = "done", !.t1 = now,
                          !.result = getCachedWord(call.cache, call.word, now)]
  /\ UNCHANGED <<store, now, calls, lastCacheWrite, resVars, authVars, dispVars,
                 sc,
                 rq,
                 sm, awc>>

\* setCachedWord after its await: stamps the entry, issues StorageManager.set
setCachedWord_stamp ==
  /\ call.pc = "cont" /\ call.op = "setCachedWord"
  /\ call' = [call EXCEPT !.pc = "set", !.stamp = now,
                          !.cache = PutEntry(call.cache, call.word, call.data, now)]
  /\ UNCHANGED <<store, now, calls, lastCacheWrite, resVars, authVars, dispVars,
                 sc,
                 rq,
                 sm, awc>>

\* cleanExpiredCache after its await: rebuilds the map, issues StorageManager.set
cleanExpiredCache_filter ==
  /\ call.pc = "cont" /\ call.op = "cleanExpiredCache"
  /\ call' = [call EXCEPT !.pc = "set", !.stamp = now, !.read = call.cache,
                          !.cache = cleanExpiredCache(call.cache, now)]
  /\ UNCHANGED <<store, now, calls, lastCacheWrite, resVars, authVars, dispVars,
                 sc,
                 rq,
                 sm, awc>>

\* the write that puts the call's entries into the map the store holds when
\* it lands
StorageSetWordCache_merge ==
  /\ call.pc = "set"
  /\ store' = [store EXCEPT !.wordCache =
       Some([w \in DOMAIN CacheOrEmpty(store.wordCache) \cup DOMAIN call.cache |->
               IF w \in DOMAIN call.cache THEN call.cache[w]
               ELSE CacheOrEmpty(store.wordCache)[w]])]
  /\ call' = [call EXCEPT !.pc = "done"]
  /\ lastCacheWrite' = [op |-> call.op, word |-> call.word,
                        rec |-> call.data.rec, stamp |-> call.stamp,
                        doneAt |-> now]
  /\ UNCHANGED <<now, calls, resVars, authVars, dispVars, sc, rq,
                 sm, awc>>

\* StorageManager.set(wordCache, map) lands and the call completes
StorageSetWordCache ==
  /\ call.pc = "set"
  /\ store' = [store EXCEPT !.wordCache = Some(call.cache)]
  /\ call' = [call EXCEPT !.pc = "done"]
  /\ lastCacheWrite' = [op |-> call.op, word |-> call.word,
                        rec |-> call.data.rec, stamp |-> call.stamp,
                        doneAt |-> now]
  /\ UNCHANGED <<now, calls, resVars, authVars, dispVars, sc,
                 rq,
                 sm, awc>>

\* ------------------------------------------------ background script: cache
\* the lookup with the age test left out
getCachedWordData_noExpiry(cache, word, t) ==
  IF word \in DOMAIN cache THEN Some(cache[word]) ELSE None

\* the lookup that never finds an entry
getCachedWordData_never(cache, word, t) == None

\* getCachedWordData once the map is read: the stored entry, or null
getCachedWordData(cache, word, t) ==
  IF word \in DOMAIN cache /\ IsFresh(cache[word], t, CACHE_EXPIRY)
  THEN Some(cache[word])
  ELSE None

\* the slot value with the word left blank
CurrentWordValue_blank(word, data, t) ==
  [word |-> <<>>, data |-> data, timestamp |-> t]

\* setCurrentWord(word, data): the value it stores under currentWord
CurrentWordValue(word, data, t) == [word |-> word, data |-> data, timestamp |-> t]

\* --------------------------------- background script: WORD_DETECTED handler
\* Two activations of the handler may be in flight at once. Locals that are
\* dead (the map once it was looked up or written, the slot value once it
\* was stored) are reset, so that a state holds live values only.
ResIds == {"h1", "h2"}

FetchOutcomes == {"ok", "http", "network"}

NoSlot == CurrentWordValue(<<>>, WordData("r1"), 0)

\* the handler with setCurrentWord called whatever fetchWordData returned
HandleWordData_unchecked(r, wordData, t) ==
  LET d == IF wordData # None THEN wordData[1] ELSE r.data
  IN  [r EXCEPT !.pc = "slot_set", !.data = d, !.cache = EmptyCache,
                !.slot = CurrentWordValue(r.word, d, t)]

\* the handler after `await fetchWordData(word)`: if (wordData) it calls
\* setCurrentWord(word, wordData), which issues storage.local.set; else it ends
HandleWordData(r, wordData, t) ==
  IF wordData # None
  THEN [r EXCEPT !.pc = "slot_set", !.data = wordData[1], !.cache = EmptyCache,
                 !.slot = CurrentWordValue(r.word, wordData[1], t)]
  ELSE [r EXCEPT !.pc = "ERRORED", !.cache = EmptyCache]

\* found is history: what the cache lookup had under the word when it
\* compared it with Date.now()
IdleRes ==
  [pc |-> "IDLE", word |-> <<>>, cache |-> EmptyCache, data |-> WordData("r1"),
   slot |-> NoSlot, fetch |-> "none",
   attempts |-> 0, wrote |-> {}, found |-> "none"]

\* the age at time t of the entry a map holds under the word
Found(cache, word, t) ==
  IF word \notin DOMAIN cache THEN "absent"
  ELSE IF t - cache[word].cachedAt[1] >= CACHE_EXPIRY THEN "expired"
  ELSE "fresh"

ResCanStart(i) ==
  /\ res[i].pc \in {"IDLE", "RESOLVED", "ERRORED"}
  /\ detected < MaxDetected
  /\ i = "h2" => res["h1"].pc \notin {"IDLE", "RESOLVED", "ERRORED"}

\* onMessage WORD_DETECTED: starts fetchWordData(message.word), no response;
\* fetchWordData calls getCachedWordData, which issues storage.local.get
WORD_DETECTED(i, w) ==
  /\ ResCanStart(i)
  /\ res' = [res EXCEPT ![i] = [IdleRes EXCEPT !.pc = "cache_get", !.word = w]]
  /\ detected' = detected + 1
  /\ UNCHANGED <<store, now, cacheVars, lastCacheWrite, authVars, dispVars,
                 sc,
                 rq,
                 sm, awc>>

\* getCachedWordData: storage.local.get(wordCache) resolves
res_CacheGet(i) ==
  /\ res[i].pc = "cache_get"
  /\ res' = [res EXCEPT ![i] = [@ EXCEPT !.pc = "cache_cont",
                                         !.cache = CacheOrEmpty(store.wordCache)]]
  /\ UNCHANGED <<store, now, cacheVars, lastCacheWrite, detected, authVars, dispVars,
                 sc,
                 rq,
                 sm, awc>>

\* fetchWordData after getCachedWordData: a hit is returned to the handler,
\* a miss issues the fetch
res_CacheHit(i) ==
  /\ res[i].pc = "cache_cont"
  /\ getCachedWordData(res[i].cache, res[i].word, now) # None
  /\ res' = [res EXCEPT ![i] =
       HandleWordData([res[i] EXCEPT
                         !.found = Found(res[i].cache, res[i].word, now)],
                      getCachedWordData(res[i].cache, res[i].word, now), now)]
  /\ UNCHANGED <<store, now, cacheVars, lastCacheWrite, detected, authVars, dispVars,
                 sc,
                 rq,
                 sm, awc>>

\* the miss that ends the resolution without fetching
res_CacheMiss_giveUp(i) ==
  /\ res[i].pc = "cache_cont"
  /\ getCachedWordData(res[i].cache, res[i].word, now) = None
  /\ res' = [res EXCEPT ![i] = [@ EXCEPT !.pc = "ERRORED", !.cache = EmptyCache,
                                         !.found = Found(res[i].cache, res[i].word, now)]]
  /\ UNCHANGED <<store, now, cacheVars, lastCacheWrite, detected, authVars, dispVars,
                 sc, rq,
                 sm, awc>>

res_CacheMiss(i) ==
  /\ res[i].pc = "cache_cont"
  /\ getCachedWordData(res[i].cache, res[i].word, now) = None
  /\ res' = [res EXCEPT ![i] = [@ EXCEPT !.pc = "fetch", !.cache = EmptyCache,
                                         !.found = Found(res[i].cache, res[i].word, now),
                                         !.attempts = @ + 1]]
  /\ UNCHANGED <<store, now, cacheVars, lastCacheWrite, detected, authVars, dispVars,
                 sc,
                 rq,
                 sm, awc>>

\* the fetch fails (it rejects, or !response.ok): fetchWordData returns null
\* and the handler, finding no word data, stops
res_FetchFailed(i, outcome) ==
  /\ res[i].pc = "fetch"
  /\ outcome \in {"http", "network"}
  /\ res' = [res EXCEPT ![i] =
       HandleWordData([res[i] EXCEPT !.fetch = outcome], None, now)]
  /\ UNCHANGED <<store, now, cacheVars, lastCacheWrite, detected, authVars, dispVars,
                 sc,
                 rq,
                 sm, awc>>

\* the fetch succeeds with a body: setCachedWordData issues storage.local.get
res_FetchOk(i, r) ==
  /\ res[i].pc = "fetch"
  /\ res' = [res EXCEPT ![i] = [@ EXCEPT !.pc = "put_get", !.fetch = "ok",
                                         !.data = WordData(r)]]
  /\ UNCHANGED <<store, now, cacheVars, lastCacheWrite, detected, authVars, dispVars,
                 sc,
                 rq,
                 sm, awc>>

\* the read that hands setCachedWordData an empty map
res_PutGet_empty(i) ==
  /\ res[i].pc = "put_get"
  /\ res' = [res EXCEPT ![i] = [@ EXCEPT !.pc = "put_cont",
                                         !.cache = EmptyCache]]
  /\ UNCHANGED <<store, now, cacheVars, lastCacheWrite, detected, authVars, dispVars,
                 sc, rq,
                 sm, awc>>

\* setCachedWordData: storage.local.get(wordCache) resolves
res_PutGet(i) ==
  /\ res[i].pc = "put_get"
  /\ res' = [res EXCEPT ![i] = [@ EXCEPT !.pc = "put_cont",
                                         !.cache = CacheOrEmpty(store.wordCache)]]
  /\ UNCHANGED <<store, now, cacheVars, lastCacheWrite, detected, authVars, dispVars,
                 sc,
                 rq,
                 sm, awc>>

\* setCachedWordData: stamps the entry and issues storage.local.set
res_PutStamp(i) ==
  /\ res[i].pc = "put_cont"
  /\ res' = [res EXCEPT ![i] = [@ EXCEPT
               !.pc = "put_set",
               !.cache = PutEntry(res[i].cache, res[i].word, res[i].data, now)]]
  /\ UNCHANGED <<store, now, cacheVars, lastCacheWrite, detected, authVars, dispVars,
                 sc,
                 rq,
                 sm, awc>>

\* setCachedWordData not awaited: fetchWordData returns and the handler
\* calls setCurrentWord while the cache write has not landed
res_PutSet_unawaited(i) ==
  /\ res[i].pc = "put_set"
  /\ res' = [res EXCEPT ![i] = HandleWordData(res[i], Some(res[i].data), now)]
  /\ UNCHANGED <<store, now, cacheVars, lastCacheWrite, detected, authVars,
                 dispVars, sc, rq,
                 sm, awc>>

\* the cache write that adds its entry to the map the store holds when it
\* lands
res_PutSet_merge(i) ==
  /\ res[i].pc = "put_set"
  /\ store' = [store EXCEPT !.wordCache =
       Some([k \in DOMAIN CacheOrEmpty(store.wordCache) \cup {res[i].word} |->
               IF k = res[i].word THEN res[i].cache[k]
               ELSE CacheOrEmpty(store.wordCache)[k]])]
  /\ lastCacheWrite' = [op |-> "setCachedWordData", word |-> res[i].word,
                        rec |-> res[i].data.rec,
                        stamp |-> res[i].cache[res[i].word].cachedAt[1],
                        doneAt |-> now]
  /\ res' = [res EXCEPT ![i] =
       HandleWordData([res[i] EXCEPT !.wrote = @ \cup {"wordCache"}],
                      Some(res[i].data), now)]
  /\ UNCHANGED <<now, cacheVars, detected, authVars, dispVars, sc,
                 rq,
                 sm, awc>>

\* setCachedWordData: the write lands; fetchWordData returns the API body
\* and the handler calls setCurrentWord with it
res_PutSet(i) ==
  /\ res[i].pc = "put_set"
  /\ store' = [store EXCEPT !.wordCache = Some(res[i].cache)]
  /\ lastCacheWrite' = [op |-> "setCachedWordData", word |-> res[i].word,
                        rec |-> res[i].data.rec,
                        stamp |-> res[i].cache[res[i].word].cachedAt[1],
                        doneAt |-> now]
  /\ res' = [res EXCEPT ![i] =
       HandleWordData([res[i] EXCEPT !.wrote = @ \cup {"wordCache"}],
                      Some(res[i].data), now)]
  /\ UNCHANGED <<now, cacheVars, detected, authVars, dispVars, sc,
                 rq,
                 sm, awc>>

\* the slot write that is dropped once another resolution has ended RESOLVED
res_SlotSet_discard(i) ==
  /\ res[i].pc = "slot_set"
  /\ store' = IF \E j \in ResIds \ {i} : res[j].pc = "RESOLVED"
               THEN store
               ELSE [store EXCEPT !.currentWord = Some(res[i].slot)]
  /\ res' = [res EXCEPT ![i] = [@ EXCEPT !.pc = "RESOLVED", !.slot = NoSlot,
                                         !.wrote = @ \cup {"currentWord"}]]
  /\ UNCHANGED <<now, cacheVars, lastCacheWrite, detected, authVars, dispVars,
                 sc,
                 rq,
                 sm, awc>>

\* setCurrentWord: storage.local.set(currentWord) lands; the handler ends
res_SlotSet(i) ==
  /\ res[i].pc = "slot_set"
  /\ store' = [store EXCEPT !.currentWord = Some(res[i].slot)]
  /\ res' = [res EXCEPT ![i] = [@ EXCEPT !.pc = "RESOLVED", !.slot = NoSlot,
                                         !.wrote = @ \cup {"currentWord"}]]
  /\ UNCHANGED <<now, cacheVars, lastCacheWrite, detected, authVars, dispVars,
                 sc,
                 rq,
                 sm, awc>>

\* ------------------------------------------------------------- credentials
\* A credential key holds a string, null ("null") or nothing ("absent").
Truthy(v) == v \notin {"absent", "null", ""}

\* `value || null`
OrNull(v) == IF Truthy(v) THEN v ELSE "null"

\* Firebase users; u2's provider reports no email (user.email is null)
Users == {"u1", "u2"}
Email(u) == IF u = "u1" THEN "a@x" ELSE "null"
IdToken(u) == IF u = "u1" THEN "t1" ELSE "t2"

\* lib/firebase.ts getIdToken(): null without a current user
getIdToken(user) == IF user = "none" THEN "null" ELSE IdToken(user)

\* { token, userId: authUser.uid, email: authUser.email || "" }
AuthDataOf(token, u) ==
  [token |-> token, userId |-> u,
   email |-> IF Truthy(Email(u)) THEN Email(u) ELSE ""]

NoCred == [token |-> "null", userId |-> "null", email |-> "null"]

\* authStorage.setAuthData: one storage.local.set of the three keys
setAuthData(st, c) ==
  [st EXCEPT !.authToken = c.token, !.userId = c.userId, !.userEmail = c.email]

\* authStorage.clearAuthData: one storage.local.remove of the three keys
clearAuthData(st) ==
  [st EXCEPT !.authToken = "absent", !.userId = "absent", !.userEmail = "absent"]

\* getAuthData without the email test
getAuthData_noEmailCheck(st) ==
  IF Truthy(st.authToken) /\ Truthy(st.userId)
  THEN Some([token |-> st.authToken, userId |-> st.userId, email |-> st.userEmail])
  ELSE None

\* authStorage.getAuthData on the three keys read by one getMultiple
getAuthData(st) ==
  IF Truthy(st.authToken) /\ Truthy(st.userId) /\ Truthy(st.userEmail)
  THEN Some([token |-> st.authToken, userId |-> st.userId, email |-> st.userEmail])
  ELSE None

NoAuthWrite == [op |-> "none", cred |-> NoCred]

\* ------------------------------------- background: SET_AUTH_DATA handler
Senders == {"hook", "cb"}
IdleSad == [pc |-> "idle", token |-> "null", userId |-> "null", responses |-> 0]

\* browser.runtime.sendMessage({type: "SET_AUTH_DATA", token, userId})
SendSetAuthData(x, token, userId) ==
  [sad EXCEPT ![x] = [pc |-> "token_set", token |-> token, userId |-> userId,
                      responses |-> 0]]

\* setAuthToken(message.token): storage.local.set(authToken) lands
sad_SetAuthToken(x) ==
  /\ sad[x].pc = "token_set"
  /\ store' = [store EXCEPT !.authToken = sad[x].token]
  /\ sad' = [sad EXCEPT ![x].pc = "user_set"]
  /\ lastAuthWrite' = [op |-> "SET_AUTH_DATA", cred |-> NoCred]
  /\ UNCHANGED <<now, cacheVars, lastCacheWrite, resVars,
                 fb, cbq, hook, cb, ga, add, addLog, dispVars, sc,
                 rq,
                 sm, awc>>

\* storage.local.set(userId) lands, then sendResponse({success: true})
sad_SetUserId(x) ==
  /\ sad[x].pc = "user_set"
  /\ store' = [store EXCEPT !.userId = sad[x].userId]
  /\ sad' = [sad EXCEPT ![x].pc = "responded", ![x].responses = @ + 1]
  /\ lastAuthWrite' = [op |-> "SET_AUTH_DATA", cred |-> NoCred]
  /\ UNCHANGED <<now, cacheVars, lastCacheWrite, resVars,
                 fb, cbq, hook, cb, ga, add, addLog, dispVars, sc,
                 rq,
                 sm, awc>>

\* ------------------------------------------------------ hooks/useAuth.ts
\* signedOut is history: the last operation of the hook was a handleSignOut
\* that ran to its end, and none was started since
IdleHook ==
  [op |-> "none", pc |-> "idle", user |-> "none", cred |-> NoCred,
   signedOut |-> FALSE]
IdleCb == [pc |-> "idle", user |-> "none", cred |-> NoCred]

\* Firebase notifies the listener when the current user changes
Notify(old, new) == IF old = new THEN cbq ELSE Append(cbq, new)

HookCanStart ==
  /\ hook.pc = "idle"
  /\ Len(cbq) < MaxPending

\* handleSignIn(email, password): awaits signIn
handleSignIn(u) ==
  /\ HookCanStart
  /\ hook' = [IdleHook EXCEPT !.op = "handleSignIn", !.pc = "signIn", !.user = u]
  /\ UNCHANGED <<store, now, cacheVars, lastCacheWrite, resVars,
                 fb, cbq, cb, sad, ga, add, addLog, lastAuthWrite, dispVars,
                 sc,
                 rq,
                 sm, awc>>

\* signIn resolves with the user; handleSignIn awaits getIdToken
hook_SignInResolved ==
  /\ hook.pc = "signIn"
  /\ fb' = hook.user
  /\ cbq' = Notify(fb, hook.user)
  /\ hook' = [hook EXCEPT !.pc = "token"]
  /\ UNCHANGED <<store, now, cacheVars, lastCacheWrite, resVars,
                 cb, sad, ga, add, addLog, lastAuthWrite, dispVars, sc,
                 rq,
                 sm, awc>>

\* signIn rejects: the catch block reports the error
hook_SignInRejected ==
  /\ hook.pc = "signIn"
  /\ hook' = IdleHook
  /\ UNCHANGED <<store, now, cacheVars, lastCacheWrite, resVars,
                 fb, cbq, cb, sad, ga, add, addLog, lastAuthWrite, dispVars,
                 sc,
                 rq,
                 sm, awc>>

\* getIdToken resolves: if (token) authStorage.setAuthData({...}) is issued
hook_Token ==
  /\ hook.pc = "token"
  /\ hook' = IF Truthy(getIdToken(fb))
             THEN [hook EXCEPT !.pc = "set",
                               !.cred = AuthDataOf(getIdToken(fb), hook.user)]
             ELSE IdleHook
  /\ UNCHANGED <<store, now, cacheVars, lastCacheWrite, resVars,
                 fb, cbq, cb, sad, ga, add, addLog, lastAuthWrite, dispVars,
                 sc,
                 rq,
                 sm, awc>>

\* setAuthData lands; syncAuthWithBackground(authUser) awaits getIdToken
hook_SetAuthData ==
  /\ hook.pc = "set"
  /\ store' = setAuthData(store, hook.cred)
  /\ lastAuthWrite' = [op |-> "setAuthData", cred |-> hook.cred]
  /\ hook' = [hook EXCEPT !.pc = "sync_token", !.cred = NoCred]
  /\ UNCHANGED <<now, cacheVars, lastCacheWrite, resVars,
                 fb, cbq, cb, sad, ga, add, addLog, dispVars, sc,
                 rq,
                 sm, awc>>

\* syncAuthWithBackground: getIdToken resolves; if (token) SET_AUTH_DATA is sent
hook_SyncToken ==
  /\ hook.pc = "sync_token"
  /\ IF Truthy(getIdToken(fb))
     THEN /\ sad' = SendSetAuthData("hook", getIdToken(fb), hook.user)
          /\ hook' = [hook EXCEPT !.pc = "sync_msg"]
     ELSE /\ sad' = sad
          /\ hook' = IdleHook
  /\ UNCHANGED <<store, now, cacheVars, lastCacheWrite, resVars,
                 fb, cbq, cb, ga, add, addLog, lastAuthWrite, dispVars,
                 sc,
                 rq,
                 sm, awc>>

\* the SET_AUTH_DATA response arrives: the operation ends
hook_SyncDone ==
  /\ hook.pc = "sync_msg"
  /\ sad["hook"].pc = "responded"
  /\ sad' = [sad EXCEPT !["hook"] = IdleSad]
  /\ hook' = [IdleHook EXCEPT !.signedOut = (hook.op = "handleSignOut")]
  /\ UNCHANGED <<store, now, cacheVars, lastCacheWrite, resVars,
                 fb, cbq, cb, ga, add, addLog, lastAuthWrite, dispVars,
                 sc,
                 rq,
                 sm, awc>>

\* handleSignOut(): awaits signOutUser
handleSignOut ==
  /\ HookCanStart
  /\ hook' = [IdleHook EXCEPT !.op = "handleSignOut", !.pc = "signOut"]
  /\ UNCHANGED <<store, now, cacheVars, lastCacheWrite, resVars,
                 fb, cbq, cb, sad, ga, add, addLog, lastAuthWrite, dispVars,
                 sc,
                 rq,
                 sm, awc>>

\* signOutUser resolves; authStorage.clearAuthData() is issued
hook_SignedOut ==
  /\ hook.pc = "signOut"
  /\ fb' = "none"
  /\ cbq' = Notify(fb, "none")
  /\ hook' = [hook EXCEPT !.pc = "clear"]
  /\ UNCHANGED <<store, now, cacheVars, lastCacheWrite, resVars,
                 cb, sad, ga, add, addLog, lastAuthWrite, dispVars, sc,
                 rq,
                 sm, awc>>

\* clearAuthData lands; syncAuthWithBackground(null) sends SET_AUTH_DATA
\* with token: null, userId: null
hook_ClearAuthData ==
  /\ hook.pc = "clear"
  /\ store' = clearAuthData(store)
  /\ lastAuthWrite' = [op |-> "clearAuthData", cred |-> NoCred]
  /\ sad' = SendSetAuthData("hook", "null", "null")
  /\ hook' = [hook EXCEPT !.pc = "sync_msg"]
  /\ UNCHANGED <<now, cacheVars, lastCacheWrite, resVars,
                 fb, cbq, cb, ga, add, addLog, dispVars, sc,
                 rq,
                 sm, awc>>

\* the onAuthStateChange callback begins: setUser, syncAuthWithBackground
cb_Begin ==
  /\ cb.pc = "idle"
  /\ cbq # <<>>
  /\ cbq' = Tail(cbq)
  /\ IF Head(cbq) # "none"
     THEN /\ cb' = [IdleCb EXCEPT !.pc = "sync_token", !.user = Head(cbq)]
          /\ sad' = sad
     ELSE /\ cb' = [IdleCb EXCEPT !.pc = "sync_msg"]
          /\ sad' = SendSetAuthData("cb", "null", "null")
  /\ UNCHANGED <<store, now, cacheVars, lastCacheWrite, resVars,
                 fb, hook, ga, add, addLog, lastAuthWrite, dispVars,
                 sc,
                 rq,
                 sm, awc>>

\* syncAuthWithBackground: getIdToken resolves; if (token) SET_AUTH_DATA is
\* sent, else the callback goes on to its own getIdToken
cb_SyncToken ==
  /\ cb.pc = "sync_token"
  /\ IF Truthy(getIdToken(fb))
     THEN /\ sad' = SendSetAuthData("cb", getIdToken(fb), cb.user)
          /\ cb' = [cb EXCEPT !.pc = "sync_msg"]
     ELSE /\ sad' = sad
          /\ cb' = [cb EXCEPT !.pc = "token"]
  /\ UNCHANGED <<store, now, cacheVars, lastCacheWrite, resVars,
                 fb, cbq, hook, ga, add, addLog, lastAuthWrite, dispVars,
                 sc,
                 rq,
                 sm, awc>>

\* the SET_AUTH_DATA response arrives: with a user the callback awaits
\* getIdToken, without one it issues authStorage.clearAuthData()
cb_SyncDone ==
  /\ cb.pc = "sync_msg"
  /\ sad["cb"].pc = "responded"
  /\ sad' = [sad EXCEPT !["cb"] = IdleSad]
  /\ cb' = [cb EXCEPT !.pc = IF cb.user # "none" THEN "token" ELSE "clear"]
  /\ UNCHANGED <<store, now, cacheVars, lastCacheWrite, resVars,
                 fb, cbq, hook, ga, add, addLog, lastAuthWrite, dispVars,
                 sc,
                 rq,
                 sm, awc>>

\* getIdToken resolves: if (token) authStorage.setAuthData({...}) is issued
cb_Token ==
  /\ cb.pc = "token"
  /\ cb' = IF Truthy(getIdToken(fb))
           THEN [cb EXCEPT !.pc = "set",
                           !.cred = AuthDataOf(getIdToken(fb), cb.user)]
           ELSE IdleCb
  /\ UNCHANGED <<store, now, cacheVars, lastCacheWrite, resVars,
                 fb, cbq, hook, sad, ga, add, addLog, lastAuthWrite, dispVars,
                 sc,
                 rq,
                 sm, awc>>

\* the callback's setAuthData lands
cb_SetAuthData ==
  /\ cb.pc = "set"
  /\ store' = setAuthData(store, cb.cred)
  /\ lastAuthWrite' = [op |-> "setAuthData", cred |-> cb.cred]
  /\ cb' = IdleCb
  /\ UNCHANGED <<now, cacheVars, lastCacheWrite, resVars,
                 fb, cbq, hook, sad, ga, add, addLog, dispVars, sc,
                 rq,
                 sm, awc>>

\* the callback's clearAuthData lands
cb_ClearAuthData ==
  /\ cb.pc = "clear"
  /\ store' = clearAuthData(store)
  /\ lastAuthWrite' = [op |-> "clearAuthData", cred |-> NoCred]
  /\ cb' = IdleCb
  /\ UNCHANGED <<now, cacheVars, lastCacheWrite, resVars,
                 fb, cbq, hook, sad, ga, add, addLog, dispVars, sc,
                 rq,
                 sm, awc>>

\* ------------------------------------------ authStorage.getAuthData reader
\* the three credential keys of a store state
AuthKeys(st) ==
  [authToken |-> st.authToken, userId |-> st.userId, userEmail |-> st.userEmail]

IdleGa ==
  [pc |-> "idle", seen |-> AuthKeys(EmptyStore), result |-> None,
   after |-> NoAuthWrite]

\* authStorage.getAuthData(): issues StorageManager.getMultiple
Call_getAuthData ==
  /\ ga.pc \in {"idle", "done"}
  /\ ga' = [IdleGa EXCEPT !.pc = "get"]
  /\ UNCHANGED <<store, now, cacheVars, lastCacheWrite, resVars,
                 fb, cbq, hook, cb, sad, add, addLog, lastAuthWrite, dispVars,
                 sc,
                 rq,
                 sm, awc>>

\* getMultiple resolves with the three keys as stored; getAuthData returns
getAuthData_return ==
  /\ ga.pc = "get"
  /\ ga' = [pc |-> "done", seen |-> AuthKeys(store),
            result |-> getAuthData(AuthKeys(store)),
            after |-> lastAuthWrite]
  /\ UNCHANGED <<store, now, cacheVars, lastCacheWrite, resVars,
                 fb, cbq, hook, cb, sad, add, addLog, lastAuthWrite, dispVars,
                 sc,
                 rq,
                 sm, awc>>

\* ------------------------------------- background: ADD_FLASHCARD handler
IdleAdd ==
  [pc |-> "idle", token |-> "null", userId |-> "null", requests |-> 0,
   cause |-> "none", response |-> "none", credSeen |-> {}]

\* if (!authToken || !userId) return false
AddGate(token, userId) == Truthy(token) /\ Truthy(userId)

\* if (!response.ok) return false; a rejected fetch is caught: return false
ResponseOk(outcome) == outcome = "ok"

\* sendResponse({ success })
SuccessResponse(success) == IF success THEN "success_true" ELSE "success_false"

\* whether getAuthData would return a credential on this store state
CredentialPresent(st) == getAuthData(AuthKeys(st)) # None

\* onMessage ADD_FLASHCARD: addFlashcardToUser awaits getAuthToken
ADD_FLASHCARD ==
  /\ add.pc \in {"idle", "done"}
  /\ add' = [IdleAdd EXCEPT !.pc = "token_get",
                            !.credSeen = {CredentialPresent(store)}]
  /\ UNCHANGED <<store, now, cacheVars, lastCacheWrite, resVars,
                 fb, cbq, hook, cb, sad, ga, addLog, lastAuthWrite, dispVars,
                 sc,
                 rq,
                 sm, awc>>

\* getAuthToken: storage.local.get(authToken) resolves; getUserId is awaited
add_GetAuthToken ==
  /\ add.pc = "token_get"
  /\ add' = [add EXCEPT !.pc = "user_get", !.token = OrNull(store.authToken),
                        !.credSeen = @ \cup {CredentialPresent(store)}]
  /\ UNCHANGED <<store, now, cacheVars, lastCacheWrite, resVars,
                 fb, cbq, hook, cb, sad, ga, addLog, lastAuthWrite, dispVars,
                 sc,
                 rq,
                 sm, awc>>

\* getUserId resolves; without token or userId the handler answers
\* {success: false}, else the PUT request is issued
add_GetUserId ==
  /\ add.pc = "user_get"
  /\ LET userId == OrNull(store.userId)
         seen == add.credSeen \cup {CredentialPresent(store)}
     IN  IF AddGate(add.token, userId)
         THEN /\ add' = [add EXCEPT !.pc = "fetch", !.userId = userId,
                                    !.requests = @ + 1, !.credSeen = seen]
              /\ addLog' = addLog
         ELSE /\ add' = [add EXCEPT !.pc = "done", !.token = "null",
                                    !.cause = "noauth", !.credSeen = seen,
                                    !.response = SuccessResponse(FALSE)]
              /\ addLog' = [addLog EXCEPT !.noauth = SuccessResponse(FALSE)]
  /\ UNCHANGED <<store, now, cacheVars, lastCacheWrite, resVars,
                 fb, cbq, hook, cb, sad, ga, lastAuthWrite, dispVars,
                 sc,
                 rq,
                 sm, awc>>

\* the log after a request that settled with `outcome` was answered
Logged(outcome, response) ==
  IF outcome = "ok" THEN addLog ELSE [addLog EXCEPT !.failure = response]

\* the handler with a failed request sent again, up to three attempts
add_Response_retry(outcome) ==
  /\ add.pc = "fetch"
  /\ IF outcome # "ok" /\ add.requests < 3
     THEN /\ add' = [add EXCEPT !.requests = @ + 1]
          /\ addLog' = addLog
     ELSE /\ add' = [add EXCEPT !.pc = "done", !.cause = outcome,
                                !.token = "null", !.userId = "null",
                                !.response = SuccessResponse(ResponseOk(outcome))]
          /\ addLog' = Logged(outcome, SuccessResponse(ResponseOk(outcome)))
  /\ UNCHANGED <<store, now, cacheVars, lastCacheWrite, resVars,
                 fb, cbq, hook, cb, sad, ga, lastAuthWrite, dispVars,
                 sc,
                 rq,
                 sm, awc>>

\* the request settles (2xx, non-2xx, or rejected): the handler answers
\* {success} and ends
add_Response(outcome) ==
  /\ add.pc = "fetch"
  /\ add' = [add EXCEPT !.pc = "done", !.cause = outcome,
                        !.token = "null", !.userId = "null",
                        !.response = SuccessResponse(ResponseOk(outcome))]
  /\ addLog' = Logged(outcome, SuccessResponse(ResponseOk(outcome)))
  /\ UNCHANGED <<store, now, cacheVars, lastCacheWrite, resVars,
                 fb, cbq, hook, cb, sad, ga, lastAuthWrite, dispVars,
                 sc,
                 rq,
                 sm, awc>>

\* ------------------------------------------------- hooks/useWordData.ts
\* what the user types: a word, the empty string and a blank string
HookInputs == {Cat, <<>>, <<" ">>}

\* every string of up to MaxLen characters the word field accepts
KeyInputs == UNION {[1..n -> {"C", "c", " "}] : n \in 0..MaxLen}

\* the hook between two calls; currentWord, isLoading and error are its
\* React state, outcome and io are history: how the last fetchWordData call
\* ended and the kinds of I/O it issued
IdleWd ==
  [op |-> "none", pc |-> "idle", word |-> <<>>, slot |-> NoSlot,
   currentWord |-> None, isLoading |-> FALSE, error |-> "null",
   outcome |-> "none", io |-> {}]

\* if (!word || !word.trim())
IsBlank(word) == word = <<>> \/ trim(word) = <<>>

\* fetchWordData(word): a blank word sets the error and returns; else
\* setIsLoading(true), setError(null), getCachedWord(word.toLowerCase())
\* issues StorageManager.get(wordCache)
wd_fetchWordData(w) ==
  /\ wd.pc = "idle"
  /\ timers < MaxTimers
  /\ wd' = IF IsBlank(w)
           THEN [wd EXCEPT !.op = "fetchWordData", !.word = w,
                           !.error = "invalid", !.outcome = "rejected",
                           !.io = {}]
           ELSE [wd EXCEPT !.op = "fetchWordData", !.pc = "cache_get",
                           !.word = w, !.isLoading = TRUE, !.error = "null",
                           !.outcome = "none", !.io = {"read"}]
  /\ UNCHANGED <<store, now, cacheVars, lastCacheWrite, resVars, authVars,
                 timers, gcw, gad, sc,
                 rq,
                 sm, awc>>

\* getCachedWord resolves with an entry: currentWordStorage.setCurrentWord
\* (word.toLowerCase(), cachedData) issues StorageManager.set(currentWord)
wd_CacheHit ==
  /\ wd.pc = "cache_get"
  /\ LET w == toLowerCase(wd.word)
         hit == getCachedWord(CacheOrEmpty(store.wordCache), w, now)
     IN  /\ hit # None
         /\ wd' = [wd EXCEPT !.pc = "slot_set", !.io = @ \cup {"write"},
                             !.slot = CurrentWordValue(w, hit[1], now)]
  /\ UNCHANGED <<store, now, cacheVars, lastCacheWrite, resVars, authVars,
                 timers, gcw, gad, sc,
                 rq,
                 sm, awc>>

\* the slot write that keeps a value the slot already holds
wd_SlotSet_ifEmpty ==
  /\ wd.pc = "slot_set"
  /\ store' = IF store.currentWord = None
               THEN [store EXCEPT !.currentWord = Some(wd.slot)]
               ELSE store
  /\ wd' = [wd EXCEPT !.pc = "idle", !.slot = NoSlot, !.word = <<>>,
                      !.currentWord = Some(wd.slot), !.isLoading = FALSE,
                      !.outcome = "hit"]
  /\ UNCHANGED <<now, cacheVars, lastCacheWrite, resVars, authVars,
                 timers, gcw, gad, sc, rq,
                 sm, awc>>

\* StorageManager.set(currentWord) lands; setCurrentWord(wordData); the
\* finally block clears isLoading
wd_SlotSet ==
  /\ wd.pc = "slot_set"
  /\ store' = [store EXCEPT !.currentWord = Some(wd.slot)]
  /\ wd' = [wd EXCEPT !.pc = "idle", !.slot = NoSlot, !.word = <<>>,
                      !.currentWord = Some(wd.slot), !.isLoading = FALSE,
                      !.outcome = "hit"]
  /\ UNCHANGED <<now, cacheVars, lastCacheWrite, resVars, authVars,
                 timers, gcw, gad, sc,
                 rq,
                 sm, awc>>

\* getCachedWord resolves with null: sendMessage WORD_DETECTED is issued
wd_CacheMiss ==
  /\ wd.pc = "cache_get"
  /\ getCachedWord(CacheOrEmpty(store.wordCache), toLowerCase(wd.word), now) = None
  /\ wd' = [wd EXCEPT !.pc = "send", !.io = @ \cup {"message"}]
  /\ UNCHANGED <<store, now, cacheVars, lastCacheWrite, resVars, authVars,
                 timers, gcw, gad, sc,
                 rq,
                 sm, awc>>

\* the delivery whose sender stays suspended until the resolution answers
wd_WordDetected_blocking(i) ==
  /\ wd.pc = "send"
  /\ ResCanStart(i)
  /\ res' = [res EXCEPT ![i] = [IdleRes EXCEPT !.pc = "cache_get",
                                               !.word = toLowerCase(wd.word)]]
  /\ detected' = detected + 1
  /\ wd' = [wd EXCEPT !.pc = "wait"]
  /\ UNCHANGED <<store, now, cacheVars, lastCacheWrite, authVars, timers, gcw, gad,
                 sc, rq,
                 sm, awc>>

\* the background listener receives the hook's WORD_DETECTED and starts
\* fetchWordData(message.word); the listener returns no response, the
\* hook's await ends, it arms the 1000 ms refresh timer and clears isLoading
wd_WordDetected(i) ==
  /\ wd.pc = "send"
  /\ ResCanStart(i)
  /\ res' = [res EXCEPT ![i] = [IdleRes EXCEPT !.pc = "cache_get",
                                               !.word = toLowerCase(wd.word)]]
  /\ detected' = detected + 1
  /\ timers' = timers + 1
  /\ wd' = [wd EXCEPT !.pc = "idle", !.word = <<>>, !.isLoading = FALSE,
                      !.outcome = "sent"]
  /\ UNCHANGED <<store, now, cacheVars, lastCacheWrite, authVars, gcw, gad,
                 sc,
                 rq,
                 sm, awc>>

\* clearCurrentWord(): currentWordStorage.clearCurrentWord issues
\* StorageManager.remove(currentWord)
wd_clearCurrentWord ==
  /\ wd.pc = "idle"
  /\ store.currentWord # None \/ wd.currentWord # None
  /\ wd' = [wd EXCEPT !.op = "clearCurrentWord", !.pc = "clear"]
  /\ UNCHANGED <<store, now, cacheVars, lastCacheWrite, resVars, authVars,
                 timers, gcw, gad, sc,
                 rq,
                 sm, awc>>

\* the remove lands; setCurrentWord(null), setError(null)
wd_Cleared ==
  /\ wd.pc = "clear"
  /\ store' = [store EXCEPT !.currentWord = None]
  /\ wd' = [wd EXCEPT !.pc = "idle", !.currentWord = None, !.error = "null"]
  /\ UNCHANGED <<now, cacheVars, lastCacheWrite, resVars, authVars,
                 timers, gcw, gad, sc,
                 rq,
                 sm, awc>>

\* ------------------------------------------------ readers of the slot
\* written is history: whether a slot value was stored when the read was
\* issued
IdleGcw ==
  [kind |-> "none", pc |-> "idle", result |-> None, written |-> FALSE,
   failed |-> FALSE, responses |-> 0]

\* the read that answers from the hook's React state
SlotOrNull_state(st) == wd.currentWord

\* the value a read of the currentWord key resolves to: `value || null`
SlotOrNull(st) == st.currentWord

\* sendResponse is called by the handler; a direct store read has no
\* response
Responded(kind) == IF kind = "GET_CURRENT_WORD_DATA" THEN 1 ELSE 0

\* loadCurrentWord(): currentWordStorage.getCurrentWord issues
\* StorageManager.get(currentWord)
loadCurrentWord ==
  /\ gcw.pc \in {"idle", "done"}
  /\ gcw' = [IdleGcw EXCEPT !.kind = "getCurrentWord", !.pc = "get",
                            !.written = store.currentWord # None]
  /\ UNCHANGED <<store, now, cacheVars, lastCacheWrite, resVars, authVars,
                 wd, timers, gad, sc,
                 rq,
                 sm, awc>>

\* the refresh timer fires: refreshCurrentWord sends GET_CURRENT_WORD_DATA
\* and the background handler issues storage.local.get(currentWord)
refreshCurrentWord ==
  /\ timers > 0
  /\ gcw.pc \in {"idle", "done"}
  /\ timers' = timers - 1
  /\ gcw' = [IdleGcw EXCEPT !.kind = "GET_CURRENT_WORD_DATA", !.pc = "get",
                            !.written = store.currentWord # None]
  /\ UNCHANGED <<store, now, cacheVars, lastCacheWrite, resVars, authVars, wd,
                 gad, sc,
                 rq,
                 sm, awc>>

\* the get resolves: the reader returns (the handler responds with) the
\* stored value or null, and the hook sets its state to it
gcw_Return ==
  /\ gcw.pc = "get"
  /\ gcw' = [gcw EXCEPT !.pc = "done", !.result = SlotOrNull(store),
                        !.responses = Responded(gcw.kind)]
  /\ wd' = [wd EXCEPT !.currentWord = SlotOrNull(store)]
  /\ UNCHANGED <<store, now, cacheVars, lastCacheWrite, resVars, authVars,
                 timers, gad, sc,
                 rq,
                 sm, awc>>

\* ------------------------------------------ store operations that fail
\* A browser.storage.local call may reject (I/O or quota error). Each action
\* below is the rejecting twin of the action that lets the call land.

\* a SET_AUTH_DATA message from any sender of the extension
AuthMessages == {<<"t1", "u1">>, <<"null", "null">>}

SET_AUTH_DATA(x, m) ==
  /\ sad[x].pc \in {"idle", "responded", "threw"}
  /\ sad' = SendSetAuthData(x, m[1], m[2])
  /\ UNCHANGED <<store, now, cacheVars, lastCacheWrite, resVars,
                 fb, cbq, hook, cb, ga, add, addLog, lastAuthWrite, dispVars,
                 sc,
                 rq,
                 sm, awc>>

\* setAuthToken: storage.local.set rejects; its catch logs and the handler
\* goes on to set userId
sad_SetAuthToken_fails(x) ==
  /\ sad[x].pc = "token_set"
  /\ sad' = [sad EXCEPT ![x].pc = "user_set"]
  /\ UNCHANGED <<store, now, cacheVars, lastCacheWrite, resVars,
                 fb, cbq, hook, cb, ga, add, addLog, lastAuthWrite, dispVars,
                 sc,
                 rq,
                 sm, awc>>

\* the handler's own storage.local.set(userId) rejects: nothing catches it,
\* the async function ends with the rejection and sendResponse is not called
sad_SetUserId_fails(x) ==
  /\ sad[x].pc = "user_set"
  /\ sad' = [sad EXCEPT ![x].pc = "threw"]
  /\ UNCHANGED <<store, now, cacheVars, lastCacheWrite, resVars,
                 fb, cbq, hook, cb, ga, add, addLog, lastAuthWrite, dispVars,
                 sc,
                 rq,
                 sm, awc>>

\* onMessage GET_AUTH_DATA: awaits getAuthToken, then getUserId, then
\* sendResponse({authToken, userId})
IdleGad ==
  [pc |-> "idle", authToken |-> "null", userId |-> "null", responses |-> 0]

GET_AUTH_DATA ==
  /\ gad.pc \in {"idle", "responded"}
  /\ gad' = [IdleGad EXCEPT !.pc = "token_get"]
  /\ UNCHANGED <<store, now, cacheVars, lastCacheWrite, resVars, authVars,
                 wd, timers, gcw, sc,
                 rq,
                 sm, awc>>

\* getAuthToken resolves with the stored token or null
gad_GetAuthToken ==
  /\ gad.pc = "token_get"
  /\ gad' = [gad EXCEPT !.pc = "user_get", !.authToken = OrNull(store.authToken)]
  /\ UNCHANGED <<store, now, cacheVars, lastCacheWrite, resVars, authVars,
                 wd, timers, gcw, sc,
                 rq,
                 sm, awc>>

\* getAuthToken: the get rejects, the catch returns null
gad_GetAuthToken_fails ==
  /\ gad.pc = "token_get"
  /\ gad' = [gad EXCEPT !.pc = "user_get", !.authToken = "null"]
  /\ UNCHANGED <<store, now, cacheVars, lastCacheWrite, resVars, authVars,
                 wd, timers, gcw, sc,
                 rq,
                 sm, awc>>

\* getUserId resolves; sendResponse({authToken, userId})
gad_GetUserId ==
  /\ gad.pc = "user_get"
  /\ gad' = [gad EXCEPT !.pc = "responded", !.userId = OrNull(store.userId),
                        !.responses = @ + 1]
  /\ UNCHANGED <<store, now, cacheVars, lastCacheWrite, resVars, authVars,
                 wd, timers, gcw, sc,
                 rq,
                 sm, awc>>

\* getUserId: the get rejects, the catch returns null; sendResponse
gad_GetUserId_fails ==
  /\ gad.pc = "user_get"
  /\ gad' = [gad EXCEPT !.pc = "responded", !.userId = "null",
                        !.responses = @ + 1]
  /\ UNCHANGED <<store, now, cacheVars, lastCacheWrite, resVars, authVars,
                 wd, timers, gcw, sc,
                 rq,
                 sm, awc>>

\* a GET_CURRENT_WORD_DATA message: the handler issues
\* storage.local.get(currentWord)
GET_CURRENT_WORD_DATA ==
  /\ gcw.pc \in {"idle", "done"}
  /\ gcw' = [IdleGcw EXCEPT !.kind = "GET_CURRENT_WORD_DATA", !.pc = "get",
                            !.written = store.currentWord # None]
  /\ UNCHANGED <<store, now, cacheVars, lastCacheWrite, resVars, authVars,
                 wd, timers, gad, sc,
                 rq,
                 sm, awc>>

\* the get rejects: StorageManager.get's catch returns null, the handler's
\* catch calls sendResponse(null); the hook sets its state to null
gcw_Fails ==
  /\ gcw.pc = "get"
  /\ gcw' = [gcw EXCEPT !.pc = "done", !.result = None, !.failed = TRUE,
                        !.responses = Responded(gcw.kind)]
  /\ wd' = [wd EXCEPT !.currentWord = None]
  /\ UNCHANGED <<store, now, cacheVars, lastCacheWrite, resVars, authVars,
                 timers, gad, sc,
                 rq,
                 sm, awc>>

\* addFlashcardToUser: getAuthToken's get rejects, its catch returns null
add_GetAuthToken_fails ==
  /\ add.pc = "token_get"
  /\ add' = [add EXCEPT !.pc = "user_get", !.token = "null",
                        !.credSeen = @ \cup {CredentialPresent(store)}]
  /\ UNCHANGED <<store, now, cacheVars, lastCacheWrite, resVars,
                 fb, cbq, hook, cb, sad, ga, addLog, lastAuthWrite, dispVars,
                 sc,
                 rq,
                 sm, awc>>

\* addFlashcardToUser: getUserId's get rejects, its catch returns null, so
\* the handler answers {success: false}
add_GetUserId_fails ==
  /\ add.pc = "user_get"
  /\ add' = [add EXCEPT !.pc = "done", !.token = "null", !.cause = "noauth",
                        !.credSeen = @ \cup {CredentialPresent(store)},
                        !.response = SuccessResponse(FALSE)]
  /\ addLog' = [addLog EXCEPT !.noauth = SuccessResponse(FALSE)]
  /\ UNCHANGED <<store, now, cacheVars, lastCacheWrite, resVars,
                 fb, cbq, hook, cb, sad, ga, lastAuthWrite, dispVars,
                 sc,
                 rq,
                 sm, awc>>

\* ------------------------------------------ lib/storage.ts settingsStorage
SettingsFields == {"autoDetect", "language", "apiBaseUrl"}

FieldValues(f) ==
  IF f = "autoDetect" THEN {"true", "false"}
  ELSE IF f = "language" THEN {"en", "ja"}
  ELSE {"http://localhost:8000", "https://api.example"}

DEFAULT_SETTINGS ==
  [autoDetect |-> "true", language |-> "ja",
   apiBaseUrl |-> "http://localhost:8000"]

\* Partial<ExtensionSettings>: any subset of the fields, each with a value
PartialSettings ==
  UNION {{p \in [S -> UNION {FieldValues(f) : f \in SettingsFields}] :
            \A f \in S : p[f] \in FieldValues(f)} : S \in SUBSET SettingsFields}

NoSettings == [f \in {} |-> "true"]

\* the spread with the left operand winning
Spread_left(a, b) ==
  [f \in DOMAIN a \cup DOMAIN b |-> IF f \in DOMAIN a THEN a[f] ELSE b[f]]

\* { ...a, ...b }
Spread(a, b) ==
  [f \in DOMAIN a \cup DOMAIN b |-> IF f \in DOMAIN b THEN b[f] ELSE a[f]]

\* getSettings once StorageManager.get(settings) resolved with v (or null)
getSettings(v) ==
  Spread(DEFAULT_SETTINGS, IF v = None THEN NoSettings ELSE v[1])

\* The caller awaits each settingsStorage call before the next one. result
\* is what getSettings returned, inside setSettings too.
IdleSc ==
  [op |-> "none", pc |-> "idle", p |-> NoSettings,
   result |-> DEFAULT_SETTINGS, value |-> DEFAULT_SETTINGS]

\* settingsStorage.getSettings(): issues StorageManager.get(settings)
Call_getSettings ==
  /\ sc.pc \in {"idle", "done"}
  /\ sc' = [IdleSc EXCEPT !.op = "getSettings", !.pc = "get"]
  /\ UNCHANGED <<store, now, cacheVars, lastCacheWrite, resVars, authVars,
                 dispVars,
                 rq,
                 sm, awc>>

\* settingsStorage.setSettings(p): awaits this.getSettings()
Call_setSettings(p) ==
  /\ sc.pc \in {"idle", "done"}
  /\ sc' = [IdleSc EXCEPT !.op = "setSettings", !.pc = "get", !.p = p]
  /\ UNCHANGED <<store, now, cacheVars, lastCacheWrite, resVars, authVars,
                 dispVars,
                 rq,
                 sm, awc>>

\* settingsStorage.resetSettings(): issues StorageManager.set(settings,
\* DEFAULT_SETTINGS)
Call_resetSettings ==
  /\ sc.pc \in {"idle", "done"}
  /\ sc' = [IdleSc EXCEPT !.op = "resetSettings", !.pc = "set",
                          !.value = DEFAULT_SETTINGS]
  /\ UNCHANGED <<store, now, cacheVars, lastCacheWrite, resVars, authVars,
                 dispVars,
                 rq,
                 sm, awc>>

\* StorageManager.get(settings) resolves: getSettings returns the merge;
\* setSettings merges p over it and issues StorageManager.set
sc_GetSettings ==
  /\ sc.pc = "get"
  /\ LET current == getSettings(store.settings)
     IN  sc' = IF sc.op = "getSettings"
               THEN [sc EXCEPT !.pc = "done", !.result = current]
               ELSE [sc EXCEPT !.pc = "set", !.result = current,
                               !.value = Spread(current, sc.p)]
  /\ UNCHANGED <<store, now, cacheVars, lastCacheWrite, resVars, authVars,
                 dispVars,
                 rq,
                 sm, awc>>

\* StorageManager.set(settings, value) lands and the call completes
sc_SetSettings ==
  /\ sc.pc = "set"
  /\ store' = [store EXCEPT !.settings = Some(sc.value)]
  /\ sc' = [sc EXCEPT !.pc = "done"]
  /\ UNCHANGED <<now, cacheVars, lastCacheWrite, resVars, authVars, dispVars,
                 rq,
                 sm, awc>>

\* ------------------------------------------------- lib/api.ts ApiClient
\* how one attempt (fetch, the response.ok test, response.json) ends: a
\* parsed body, a 2xx response whose body does not parse, a response that is
\* not 2xx, a rejected fetch
AttemptOutcomes == {"ok", "badjson", "http", "network"}

\* the response of the attempt was 2xx
Got2xx(o) == o \in {"ok", "badjson"}

\* outcomes and waits are history: how each attempt ended and the delays
\* awaited, in order
IdleRq ==
  [pc |-> "idle", authToken |-> "null", attempt |-> 0, outcomes |-> <<>>,
   waits |-> <<>>, result |-> None, lastError |-> None]

\* a delay that does not grow with the attempt
Backoff_constant(attempt) == retryDelay

\* this.retryDelay * attempt
Backoff(attempt) == retryDelay * attempt

\* request(endpoint, options): awaits getAuthToken, which issues
\* storage.local.get(authToken)
request ==
  /\ rq.pc = "idle"
  /\ rq' = [rq EXCEPT !.pc = "token"]
  /\ UNCHANGED <<store, now, cacheVars, lastCacheWrite, resVars, authVars,
                 dispVars, sc,
                 sm, awc>>

\* getAuthToken resolves with the stored token or null (null also when the
\* read rejects); the headers are built and the loop issues its first fetch
rq_GetAuthToken ==
  /\ rq.pc = "token"
  /\ \E t \in {OrNull(store.authToken), "null"} :
       rq' = [rq EXCEPT !.pc = "fetch", !.authToken = t, !.attempt = 1]
  /\ UNCHANGED <<store, now, cacheVars, lastCacheWrite, resVars, authVars,
                 dispVars, sc,
                 sm, awc>>

\* the attempt ends: a parsed body is returned; otherwise the catch block
\* keeps the error and, if attempt < retryAttempts, awaits the delay; after
\* the last attempt the loop ends and lastError is thrown
rq_Attempt(o, r) ==
  /\ rq.pc = "fetch"
  /\ rq' = IF o = "ok"
           THEN [rq EXCEPT !.pc = "returned", !.outcomes = Append(@, o),
                           !.result = Some(r)]
           ELSE IF rq.attempt < retryAttempts
           THEN [rq EXCEPT !.pc = "delay", !.outcomes = Append(@, o),
                           !.lastError = Some(o),
                           !.waits = Append(@, Backoff(rq.attempt))]
           ELSE [rq EXCEPT !.pc = "thrown", !.outcomes = Append(@, o),
                           !.lastError = Some(o)]
  /\ UNCHANGED <<store, now, cacheVars, lastCacheWrite, resVars, authVars,
                 dispVars, sc,
                 sm, awc>>

\* the delay's timer fires: attempt++ and the next fetch is issued
rq_Delay ==
  /\ rq.pc = "delay"
  /\ rq' = [rq EXCEPT !.pc = "fetch", !.attempt = @ + 1]
  /\ UNCHANGED <<store, now, cacheVars, lastCacheWrite, resVars, authVars,
                 dispVars, sc,
                 sm, awc>>

\* --------------------------------------- lib/storage.ts StorageManager
\* JSON values by their text; '' is the empty string, 'a' a string
JsonValues == {"false", "0", "''", "null", "true", "'a'", "{}"}

\* the values that `||` replaces
JsFalsy(v) == v \in {"false", "0", "''", "null"}

\* the keys the wrappers pass to StorageManager.get and StorageManager.set
StorageKeys == {"currentWord", "wordCache", "settings"}

\* seen is history: what the store held under the key when the get read it
IdleSm ==
  [op |-> "none", pc |-> "idle", key |-> "settings", value |-> "null",
   seen |-> None, result |-> "null", failed |-> FALSE]

\* StorageManager.set(key, value): issues storage.local.set({[key]: value})
StorageManager_set(k, v) ==
  /\ sm.pc \in {"idle", "done"}
  /\ sm' = [IdleSm EXCEPT !.op = "set", !.pc = "set", !.key = k, !.value = v]
  /\ UNCHANGED <<store, now, cacheVars, lastCacheWrite, resVars, authVars,
                 dispVars, sc, rq, awc>>

\* the set lands and the call resolves
sm_Set ==
  /\ sm.pc = "set"
  /\ store' = [store EXCEPT ![sm.key] = Some(sm.value)]
  /\ sm' = [sm EXCEPT !.pc = "done"]
  /\ UNCHANGED <<now, cacheVars, lastCacheWrite, resVars, authVars,
                 dispVars, sc, rq, awc>>

\* the set rejects: the catch logs and the call resolves
sm_Set_fails ==
  /\ sm.pc = "set"
  /\ sm' = [sm EXCEPT !.pc = "done", !.failed = TRUE]
  /\ UNCHANGED <<store, now, cacheVars, lastCacheWrite, resVars, authVars,
                 dispVars, sc, rq, awc>>

\* StorageManager.get(key): issues storage.local.get(key)
StorageManager_get(k) ==
  /\ sm.pc \in {"idle", "done"}
  /\ sm' = [IdleSm EXCEPT !.op = "get", !.pc = "get", !.key = k]
  /\ UNCHANGED <<store, now, cacheVars, lastCacheWrite, resVars, authVars,
                 dispVars, sc, rq, awc>>

\* the get resolves: return result[key] || null
sm_Get ==
  /\ sm.pc = "get"
  /\ sm' = [sm EXCEPT !.pc = "done", !.seen = store[sm.key],
                      !.result = IF store[sm.key] = None
                                   \/ JsFalsy(store[sm.key][1])
                                 THEN "null"
                                 ELSE store[sm.key][1]]
  /\ UNCHANGED <<store, now, cacheVars, lastCacheWrite, resVars, authVars,
                 dispVars, sc, rq, awc>>

\* the get rejects: the catch logs and returns null
sm_Get_fails ==
  /\ sm.pc = "get"
  /\ sm' = [sm EXCEPT !.pc = "done", !.result = "null", !.failed = TRUE]
  /\ UNCHANGED <<store, now, cacheVars, lastCacheWrite, resVars, authVars,
                 dispVars, sc, rq, awc>>

\* ------------------------------ hooks/useWordData.ts addWordToCollection
FlashcardIds == {"f1", ""}

IdleAwc == [pc |-> "idle", flashcardId |-> "", result |-> "none"]

\* addWordToCollection(flashcardId): without an id it sets the error and
\* returns false; else setIsLoading(true), setError(null) and sendMessage
\* ADD_FLASHCARD is issued
wd_addWordToCollection(id) ==
  /\ awc.pc = "idle"
  /\ IF id = ""
     THEN /\ wd' = [wd EXCEPT !.error = "missing_id"]
          /\ awc' = [IdleAwc EXCEPT !.result = "false"]
     ELSE /\ wd' = [wd EXCEPT !.isLoading = TRUE, !.error = "null"]
          /\ awc' = [pc |-> "send", flashcardId |-> id, result |-> "none"]
  /\ UNCHANGED <<store, now, cacheVars, lastCacheWrite, resVars, authVars,
                 timers, gcw, gad, sc, rq, sm>>

\* the background listener receives the hook's ADD_FLASHCARD:
\* addFlashcardToUser awaits getAuthToken
awc_AddFlashcard ==
  /\ awc.pc = "send"
  /\ add.pc \in {"idle", "done"}
  /\ add' = [IdleAdd EXCEPT !.pc = "token_get",
                            !.credSeen = {CredentialPresent(store)}]
  /\ awc' = [awc EXCEPT !.pc = "wait"]
  /\ UNCHANGED <<store, now, cacheVars, lastCacheWrite, resVars,
                 fb, cbq, hook, cb, sad, ga, addLog, lastAuthWrite, dispVars,
                 sc, rq, sm>>

\* sendMessage rejects: the catch sets the error, the call returns false and
\* the finally block clears isLoading
awc_Rejected ==
  /\ awc.pc = "send"
  /\ wd' = [wd EXCEPT !.isLoading = FALSE, !.error = "rejected"]
  /\ awc' = [IdleAwc EXCEPT !.result = "false"]
  /\ UNCHANGED <<store, now, cacheVars, lastCacheWrite, resVars, authVars,
                 timers, gcw, gad, sc, rq, sm>>

\* the response arrives: response?.success returns true, otherwise the error
\* is set and false returned; the finally block clears isLoading
awc_Response ==
  /\ awc.pc = "wait"
  /\ add.pc = "done"
  /\ wd' = [wd EXCEPT !.isLoading = FALSE,
                      !.error = IF add.response = "success_true" THEN @
                                ELSE "add_failed"]
  /\ awc' = [IdleAwc EXCEPT !.result = IF add.response = "success_true"
                                        THEN "true" ELSE "false"]
  /\ UNCHANGED <<store, now, cacheVars, lastCacheWrite, resVars, authVars,
                 timers, gcw, gad, sc, rq, sm>>

\* time passes
Tick ==
  /\ \E t \in TimePoints : t > now /\ now' = t
  /\ UNCHANGED <<store, cacheVars, lastCacheWrite, resVars, authVars, dispVars,
                 sc,
                 rq,
                 sm, awc>>

Init ==
  /\ store = EmptyStore
  /\ now = 0
  /\ call = IdleCall
  /\ calls = 0
  /\ lastCacheWrite = NoWrite
  /\ res = [i \in ResIds |-> IdleRes]
  /\ detected = 0
  /\ fb = "none"
  /\ cbq = <<"none">>
  /\ hook = IdleHook
  /\ cb = IdleCb
  /\ sad = [x \in Senders |-> IdleSad]
  /\ ga = IdleGa
  /\ add = IdleAdd
  /\ addLog = [noauth |-> "none", failure |-> "none"]
  /\ lastAuthWrite = NoAuthWrite
  /\ wd = IdleWd
  /\ timers = 0
  /\ gcw = IdleGcw
  /\ gad = IdleGad
  /\ sc = IdleSc
  /\ rq = IdleRq
  /\ sm = IdleSm
  /\ awc = IdleAwc

\* The background script starts anew (the browser restarts, the service
\* worker is woken up) on the store an earlier run left behind: here the
\* run of MissResolutionWitness, which resolved "cat" at time 0 with "r1".
InitCached ==
  /\ store = [EmptyStore EXCEPT
       !.wordCache = Some(PutEntry(EmptyCache, cat, WordData("r1"), 0)),
       !.currentWord = Some(CurrentWordValue(cat, WordData("r1"), 0))]
  /\ now = 0
  /\ call = IdleCall
  /\ calls = 0
  /\ lastCacheWrite = NoWrite
  /\ res = [i \in ResIds |-> IdleRes]
  /\ detected = 0
  /\ fb = "none"
  /\ cbq = <<"none">>
  /\ hook = IdleHook
  /\ cb = IdleCb
  /\ sad = [x \in Senders |-> IdleSad]
  /\ ga = IdleGa
  /\ add = IdleAdd
  /\ addLog = [noauth |-> "none", failure |-> "none"]
  /\ lastAuthWrite = NoAuthWrite
  /\ wd = IdleWd
  /\ timers = 0
  /\ gcw = IdleGcw
  /\ gad = IdleGad
  /\ sc = IdleSc
  /\ rq = IdleRq
  /\ sm = IdleSm
  /\ awc = IdleAwc

\* the cache maps a store may hold: any set of keys, each entry a record
\* with the time it was stamped
CacheMaps ==
  UNION {[S -> [rec : Records, cachedAt : {Some(t) : t \in TimePoints}]] :
           S \in SUBSET CacheWords}

\* The two contexts start on a store holding any cache map, at any instant
\* at or after the stamps of its entries.
InitAgree ==
  /\ now \in TimePoints
  /\ \E v \in {None} \cup {Some(m) : m \in CacheMaps} :
       /\ \A w \in DOMAIN CacheOrEmpty(v) : CacheOrEmpty(v)[w].cachedAt[1] <= now
       /\ store = [EmptyStore EXCEPT !.wordCache = v]
  /\ call = IdleCall
  /\ calls = 0
  /\ lastCacheWrite = NoWrite
  /\ res = [i \in ResIds |-> IdleRes]
  /\ detected = 0
  /\ fb = "none"
  /\ cbq = <<"none">>
  /\ hook = IdleHook
  /\ cb = IdleCb
  /\ sad = [x \in Senders |-> IdleSad]
  /\ ga = IdleGa
  /\ add = IdleAdd
  /\ addLog = [noauth |-> "none", failure |-> "none"]
  /\ lastAuthWrite = NoAuthWrite
  /\ wd = IdleWd
  /\ timers = 0
  /\ gcw = IdleGcw
  /\ gad = IdleGad
  /\ sc = IdleSc
  /\ rq = IdleRq
  /\ sm = IdleSm
  /\ awc = IdleAwc

StartGet == \E w \in CacheWords : Call_getCachedWord(w)
StartSet == \E w \in CacheWords, r \in Records : Call_setCachedWord(w, r)

NextCache ==
  \/ StartGet \/ StartSet \/ Call_cleanExpiredCache
  \/ StorageGetWordCache \/ getCachedWord_return \/ setCachedWord_stamp
  \/ cleanExpiredCache_filter \/ StorageSetWordCache
  \/ Tick

SpecCache == Init /\ [][NextCache]_vars

Detect == \E i \in ResIds, w \in DetectedWords : WORD_DETECTED(i, w)
CacheGet == \E i \in ResIds : res_CacheGet(i)
CacheHit == \E i \in ResIds : res_CacheHit(i)
CacheMiss == \E i \in ResIds : res_CacheMiss(i)
FetchFailed == \E i \in ResIds, o \in {"http", "network"} : res_FetchFailed(i, o)
FetchOk == \E i \in ResIds, r \in Records : res_FetchOk(i, r)
PutGet == \E i \in ResIds : res_PutGet(i)
PutStamp == \E i \in ResIds : res_PutStamp(i)
PutSet == \E i \in ResIds : res_PutSet(i)
SlotSet == \E i \in ResIds : res_SlotSet(i)

NextResolve ==
  \/ Detect \/ CacheGet \/ CacheHit \/ CacheMiss \/ FetchFailed \/ FetchOk
  \/ PutGet \/ PutStamp \/ PutSet \/ SlotSet
  \/ Tick

SpecResolve == Init /\ [][NextResolve]_vars

\* the resolutions of a run that starts on a store holding an entry
SpecProvenance == InitCached /\ [][NextResolve]_vars

\* the continuation of activation i that is due: the one its awaited store
\* operation or fetch resumes when it settles
res_Continue(i) ==
  \/ res_CacheGet(i) \/ res_CacheHit(i) \/ res_CacheMiss(i)
  \/ \E o \in {"http", "network"} : res_FetchFailed(i, o)
  \/ \E r \in Records : res_FetchOk(i, r)
  \/ res_PutGet(i) \/ res_PutStamp(i) \/ res_PutSet(i) \/ res_SlotSet(i)

\* the resolutions at one instant
NextMachine ==
  \/ Detect \/ CacheGet \/ CacheHit \/ CacheMiss \/ FetchFailed \/ FetchOk
  \/ PutGet \/ PutStamp \/ PutSet \/ SlotSet

\* every awaited store operation and fetch eventually settles, so each
\* continuation eventually runs
SpecMachine ==
  /\ Init /\ [][NextMachine]_vars
  /\ \A i \in ResIds : WF_vars(res_Continue(i))

SignIn == \E u \in Users : handleSignIn(u)
SetAuthDataMessage == \E x \in Senders : sad_SetAuthToken(x) \/ sad_SetUserId(x)
AddResponse == \E o \in FetchOutcomes : add_Response(o)

\* the writers of the credential keys: useAuth and the SET_AUTH_DATA handler
NextCredentialWriters ==
  \/ SignIn \/ hook_SignInResolved \/ hook_SignInRejected \/ hook_Token
  \/ hook_SetAuthData \/ hook_SyncToken \/ hook_SyncDone
  \/ handleSignOut \/ hook_SignedOut \/ hook_ClearAuthData
  \/ cb_Begin \/ cb_SyncToken \/ cb_SyncDone \/ cb_Token
  \/ cb_SetAuthData \/ cb_ClearAuthData
  \/ SetAuthDataMessage

\* the credential writers and a reader calling authStorage.getAuthData
NextAuth == NextCredentialWriters \/ Call_getAuthData \/ getAuthData_return

SpecAuth == Init /\ [][NextAuth]_vars

\* the credential writers and the ADD_FLASHCARD handler
NextAdd ==
  \/ NextCredentialWriters
  \/ ADD_FLASHCARD \/ add_GetAuthToken \/ add_GetUserId \/ AddResponse

SpecAdd == Init /\ [][NextAdd]_vars

\* words a WORD_DETECTED message may carry: the listener takes message.word
\* as it comes
MessageWords == {cat, <<>>}

\* the display specification runs one resolution at a time
DetectAny == \E w \in MessageWords : WORD_DETECTED("h1", w)
FetchWord == \E w \in HookInputs : wd_fetchWordData(w)
HookWordDetected == wd_WordDetected("h1")

\* the useWordData hook, the slot readers and the background resolutions
NextDisplay ==
  \/ FetchWord \/ wd_CacheHit \/ wd_SlotSet \/ wd_CacheMiss \/ HookWordDetected
  \/ wd_clearCurrentWord \/ wd_Cleared
  \/ loadCurrentWord \/ refreshCurrentWord \/ gcw_Return
  \/ DetectAny \/ CacheGet \/ CacheHit \/ CacheMiss \/ FetchFailed \/ FetchOk
  \/ PutGet \/ PutStamp \/ PutSet \/ SlotSet

SpecDisplay == Init /\ [][NextDisplay]_vars

\* the fault specification handles one SET_AUTH_DATA at a time
SetAuthData == \E m \in AuthMessages : SET_AUTH_DATA("cb", m)
SetAuthDataFails ==
  \E x \in Senders : sad_SetAuthToken_fails(x) \/ sad_SetUserId_fails(x)

\* the background's request handlers and the display's slot read, every
\* store operation free to land or to reject
NextFault ==
  \/ SetAuthData \/ SetAuthDataMessage \/ SetAuthDataFails
  \/ GET_AUTH_DATA \/ gad_GetAuthToken \/ gad_GetAuthToken_fails
  \/ gad_GetUserId \/ gad_GetUserId_fails
  \/ GET_CURRENT_WORD_DATA \/ loadCurrentWord \/ gcw_Return \/ gcw_Fails
  \/ ADD_FLASHCARD \/ add_GetAuthToken \/ add_GetAuthToken_fails
  \/ add_GetUserId \/ add_GetUserId_fails \/ AddResponse

SpecFault == Init /\ [][NextFault]_vars

\* the hook's fetchWordData on every typed string, with the resolution it
\* starts and one started by the content script for the word "c"
NextKey ==
  \/ \E w \in KeyInputs : wd_fetchWordData(w)
  \/ wd_CacheHit \/ wd_SlotSet \/ wd_CacheMiss \/ HookWordDetected
  \/ WORD_DETECTED("h1", <<"c">>)
  \/ CacheGet \/ CacheHit \/ CacheMiss \/ FetchFailed \/ FetchOk
  \/ PutGet \/ PutStamp \/ PutSet \/ SlotSet

SpecKey == Init /\ [][NextKey]_vars

\* an activation of the WORD_DETECTED handler that has not ended
InFlight(r) == r.pc \notin {"IDLE", "RESOLVED", "ERRORED"}

\* the senders of WORD_DETECTED (the hook and the content script), the
\* listener's two activations and the hook's refresh
NextDetector ==
  \/ wd_fetchWordData(Cat) \/ wd_CacheHit \/ wd_SlotSet \/ wd_CacheMiss
  \/ \E i \in ResIds : wd_WordDetected(i)
  \/ Detect
  \/ refreshCurrentWord \/ gcw_Return
  \/ CacheGet \/ CacheHit \/ CacheMiss \/ FetchFailed \/ FetchOk
  \/ PutGet \/ PutStamp \/ PutSet \/ SlotSet

SpecDetector == Init /\ [][NextDetector]_vars

\* the display context's cleanExpiredCache and the background's resolutions
\* of "cat", one at a time, which write the same wordCache key
NextEvict ==
  \/ Call_cleanExpiredCache \/ StorageGetWordCache \/ cleanExpiredCache_filter
  \/ StorageSetWordCache
  \/ WORD_DETECTED("h1", cat)
  \/ CacheGet \/ CacheHit \/ CacheMiss \/ FetchFailed \/ FetchOk
  \/ PutGet \/ PutStamp \/ PutSet \/ SlotSet
  \/ Tick

SpecEvict == Init /\ [][NextEvict]_vars

\* the display context's cache calls and the background's resolutions for
\* the key "cat", at one instant
NextAgree ==
  \/ Call_getCachedWord(cat) \/ Call_setCachedWord(cat, "r2")
  \/ StorageGetWordCache \/ getCachedWord_return \/ setCachedWord_stamp
  \/ StorageSetWordCache
  \/ WORD_DETECTED("h1", cat)
  \/ CacheGet \/ CacheHit \/ CacheMiss \/ FetchFailed \/ FetchOk
  \/ PutGet \/ PutStamp \/ PutSet \/ SlotSet

SpecAgree == InitAgree /\ [][NextAgree]_vars

\* StorageManager.get and StorageManager.set on every key and value, one
\* call after the other, every store operation free to land or to reject
NextStore ==
  \/ \E k \in StorageKeys, v \in JsonValues : StorageManager_set(k, v)
  \/ \E k \in StorageKeys : StorageManager_get(k)
  \/ sm_Set \/ sm_Set_fails \/ sm_Get \/ sm_Get_fails

SpecStore == Init /\ [][NextStore]_vars

\* the hook's fetchWordData and addWordToCollection, the handlers they
\* message, the content script's WORD_DETECTED and the sign-in SET_AUTH_DATA
\* that stores a credential
NextLoading ==
  \/ FetchWord \/ wd_CacheHit \/ wd_SlotSet \/ wd_CacheMiss \/ HookWordDetected
  \/ WORD_DETECTED("h1", cat)
  \/ CacheGet \/ CacheHit \/ CacheMiss \/ FetchFailed \/ FetchOk
  \/ PutGet \/ PutStamp \/ PutSet \/ SlotSet
  \/ \E id \in FlashcardIds : wd_addWordToCollection(id)
  \/ awc_AddFlashcard \/ awc_Rejected \/ awc_Response
  \/ add_GetAuthToken \/ add_GetUserId \/ AddResponse
  \/ SET_AUTH_DATA("cb", <<"t1", "u1">>)
  \/ sad_SetAuthToken("cb") \/ sad_SetUserId("cb")

SpecLoading == Init /\ [][NextLoading]_vars

\* one ApiClient.request call, with the SET_AUTH_DATA handler writing the
\* token it reads
NextApi ==
  \/ request \/ rq_GetAuthToken \/ rq_Delay
  \/ \E o \in AttemptOutcomes, r \in Records : rq_Attempt(o, r)
  \/ SetAuthData \/ SetAuthDataMessage

SpecApi == Init /\ [][NextApi]_vars

SetSettings == \E p \in PartialSettings : Call_setSettings(p)

NextSettings ==
  \/ Call_getSettings \/ SetSettings \/ Call_resetSettings
  \/ sc_GetSettings \/ sc_SetSettings

SpecSettings == Init /\ [][NextSettings]_vars

\* ------------------------------------------------------------ cache claims
\* a finished getCachedWord(key) that read the map right after a landed
\* setCachedWord(key, r), no other write of wordCache in between
ReadAfterSet ==
  /\ call.op = "getCachedWord" /\ call.pc = "done"
  /\ call.after.op = "setCachedWord"
  /\ call.after.word = call.word

ReturnsRecord(r) == call.result # None /\ call.result[1].rec = r

KeyNormalization ==
  (call.op = "getCachedWord" /\ call.pc = "done") =>
    \A w2 \in CacheWords :
      normalize(w2) = normalize(call.word)
        => getCachedWord(call.cache, w2, call.t1) = call.result

\* ------------------------------------------------------- resolution claims
\* C2 as stated: a resolution whose fetch attempts all fail has made exactly
\* three of them when it ends ERRORED.
RetryBound ==
  \A i \in ResIds : res[i].pc = "ERRORED" => res[i].attempts = 3

\* C3: a resolution whose fetch failed ends ERRORED having written neither
\* the currentWord key nor the wordCache key.
FailedResolutionWritesNothing ==
  \A i \in ResIds :
    res[i].fetch \in {"http", "network"}
      => res[i].pc = "ERRORED" /\ res[i].wrote = {}

\* a resolution has failed while the slot holds an earlier resolution's word
FailedResolutionWitness ==
  \E i \in ResIds :
    /\ res[i].pc = "ERRORED" /\ res[i].fetch = "http"
    /\ store.currentWord # None
    /\ store.currentWord[1].word # res[i].word

\* ------------------------------------------------- add-to-collection claims
\* C4 as stated: an ADD_FLASHCARD whose every look at the store found a state
\* in which getCredential returns null issues no network request.
MutationRequiresCredential ==
  add.credSeen = {FALSE} => add.requests = 0

\* C5 as stated: the response the caller of ADD_FLASHCARD gets for a missing
\* credential differs from the response it gets for a non-2xx answer or a
\* network failure.
DistinctAuthFailure ==
  (addLog.noauth # "none" /\ addLog.failure # "none")
    => addLog.noauth # addLog.failure

CredentialAllOrNothing ==
  ga.pc = "done" =>
    /\ ga.result # None
         => /\ Truthy(ga.result[1].token)
            /\ Truthy(ga.result[1].userId)
            /\ Truthy(ga.result[1].email)
    /\ ga.result # None
         => /\ Truthy(ga.seen.authToken)
            /\ Truthy(ga.seen.userId)
            /\ Truthy(ga.seen.userEmail)

\* a read of a partially written credential (token and userId stored, no
\* userEmail) has returned null
CredentialAllOrNothingWitness ==
  /\ ga.pc = "done" /\ ga.result = None
  /\ Truthy(ga.seen.authToken) /\ Truthy(ga.seen.userId)
  /\ ga.seen.userEmail = "absent"

\* C8 as stated: a getCredential that reads the store right after a landed
\* clearCredential returns null, and one that reads it right after a landed
\* setCredential(c) returns c, for every c the auth hooks build.
CredentialRoundTrip ==
  ga.pc = "done" =>
    /\ ga.after.op = "clearAuthData" => ga.result = None
    /\ ga.after.op = "setAuthData" => ga.result = Some(ga.after.cred)

\* C9 as stated: in every state of the store, authToken, userId and userEmail
\* are all three set or none of them is (a key holding null counts as not
\* set, a key holding the empty string as set).
StoredCredentialAllOrNone ==
  LET IsSet(v) == v \notin {"absent", "null"}
      n == Cardinality({k \in {"authToken", "userId", "userEmail"} :
                          IsSet(store[k])})
  IN  n \in {0, 3}

EmptyInputRejected ==
  /\ (wd.op = "fetchWordData" /\ IsBlank(wd.word))
       => wd.pc = "idle" /\ wd.outcome = "rejected" /\ wd.io = {}
  /\ \A i \in ResIds :
       trim(res[i].word) = <<>>
         => res[i].pc = "IDLE" /\ res[i].attempts = 0 /\ res[i].wrote = {}

StorageFailuresContained ==
  /\ \A x \in Senders : sad[x].pc # "threw"
  /\ gcw.failed => gcw.pc = "done" /\ gcw.result = None

\* C19 as stated: every GET_CURRENT_WORD_DATA, ADD_FLASHCARD, SET_AUTH_DATA
\* and GET_AUTH_DATA handler that has run to its end has called sendResponse
\* exactly once, store and network failures included, and none has called
\* it twice.
SingleResponse ==
  /\ \A x \in Senders :
       /\ sad[x].responses <= 1
       /\ sad[x].pc \in {"responded", "threw"} => sad[x].responses = 1
  /\ gad.responses <= 1
  /\ gad.pc = "responded" => gad.responses = 1
  /\ (gcw.kind = "GET_CURRENT_WORD_DATA" /\ gcw.pc = "done")
       => gcw.responses = 1
  /\ add.pc = "done" => add.response \in {"success_true", "success_false"}

\* ------------------------------------------------ cache maintenance claims
\* C17: no step of a getCachedWord call changes the store, and a call that
\* found the word's entry expired has returned null with the stored map
\* still holding that entry and every other entry it read.
LazyExpiry ==
  /\ [][(call'.op = "getCachedWord" /\ call' # call) => store' = store]_vars
  /\ [](/\ call.op = "getCachedWord" /\ call.pc = "done"
        /\ call.word \in DOMAIN call.cache
        /\ call.t1 - call.cache[call.word].cachedAt[1] >= WordCacheExpiry
        => /\ call.result = None
           /\ store.wordCache = Some(call.cache))

\* a read at the expiry instant has returned null and the expired entry is
\* still stored
LazyExpiryWitness ==
  /\ call.op = "getCachedWord" /\ call.pc = "done"
  /\ call.word \in DOMAIN call.cache
  /\ call.t1 - call.cache[call.word].cachedAt[1] = WordCacheExpiry
  /\ call.result = None
  /\ store.wordCache # None
  /\ call.word \in DOMAIN store.wordCache[1]

KeyNormalizationIdempotent ==
  /\ wd.pc \in {"cache_get", "send"}
       => /\ toLowerCase(toLowerCase(wd.word)) = toLowerCase(wd.word)
          /\ normalize(normalize(wd.word)) = normalize(wd.word)
  /\ \A i \in ResIds :
       res[i].pc # "IDLE"
         => /\ toLowerCase(toLowerCase(res[i].word)) = toLowerCase(res[i].word)
            /\ normalize(normalize(res[i].word)) = normalize(res[i].word)

\* the hook is looking up a word whose key differs from what was typed, in
\* case and in a blank at its end
KeyNormalizationWitness ==
  /\ wd.pc = "cache_get" /\ wd.word = <<"C", " ">>
  /\ toLowerCase(wd.word) # wd.word
  /\ normalize(wd.word) # toLowerCase(wd.word)

\* ------------------------------------------------------ concurrency claims
\* C22: with two WORD_DETECTED messages handled, the first by h1 and the
\* second by h2 while h1 was in flight, a slot write of h1 that lands after
\* h2 has ended RESOLVED stores h1's word and value: the older resolution
\* overwrites the newer one's slot value.
StaleResolutionOverwrites ==
  [][(/\ detected = 2 /\ res["h2"].pc = "RESOLVED"
      /\ res["h1"].pc = "slot_set" /\ res'["h1"].pc = "RESOLVED")
       => /\ store'.currentWord = Some(res["h1"].slot)
          /\ store'.currentWord[1].word = res["h1"].word]_vars

\* both resolutions have ended RESOLVED, for different words, the second one
\* wrote the slot, and the slot holds the word of the first
StaleResolutionWitness ==
  /\ detected = 2
  /\ res["h1"].pc = "RESOLVED" /\ res["h2"].pc = "RESOLVED"
  /\ "currentWord" \in res["h2"].wrote
  /\ res["h1"].word # res["h2"].word
  /\ store.currentWord[1].word = res["h1"].word

\* C23: setCachedWordData writes back the map it read with its own entry put
\* in, so when its write lands the store holds exactly that map: the entry
\* another resolution wrote after the read is dropped.
CacheLostUpdate ==
  [][\A i \in ResIds :
       (res[i].pc = "put_set" /\ res'[i].pc = "slot_set")
         => /\ store'.wordCache = Some(res[i].cache)
            /\ \A j \in ResIds \ {i} :
                 (/\ "wordCache" \in res[j].wrote
                  /\ res[j].word \notin DOMAIN res[i].cache)
                   => res[j].word \notin DOMAIN CacheOrEmpty(store'.wordCache)]_vars

\* both resolutions have completed their cache write, for different words,
\* and the stored map holds the entry of only one of them
CacheLostUpdateWitness ==
  /\ \A i \in ResIds : "wordCache" \in res[i].wrote
  /\ res["h1"].word # res["h2"].word
  /\ \E i \in ResIds :
       DOMAIN CacheOrEmpty(store.wordCache) = {res[i].word}

\* ------------------------------------------------------ HTTP client claims
\* C24 as stated: the first attempt that gets a 2xx response ends the call,
\* which returns and makes no further attempt.
RetryStopsAt2xx ==
  \A k \in 1..Len(rq.outcomes) :
    Got2xx(rq.outcomes[k]) => k = Len(rq.outcomes) /\ rq.pc = "returned"

\* C24, amended: the attempts are numbered 1..retryAttempts; the first
\* attempt whose 2xx response has a body that parses ends the call, which
\* returns that body; every other attempt is a failed one; after failed
\* attempt k < retryAttempts the call waits retryDelay * k, after the last
\* one it waits nothing and throws that attempt's error; a call that has
\* returned or thrown does nothing more.
RetrySchedule ==
  /\ [](LET n == Len(rq.outcomes)
            failed == {k \in 1..n : rq.outcomes[k] # "ok"}
        IN  /\ rq.attempt \in 0..retryAttempts
            /\ n = IF rq.pc = "fetch" THEN rq.attempt - 1 ELSE rq.attempt
            /\ \A k \in 1..n :
                 rq.outcomes[k] = "ok" => k = n /\ rq.pc = "returned"
            /\ rq.pc = "returned" => n >= 1 /\ rq.outcomes[n] = "ok"
                                             /\ rq.result # None
            /\ Len(rq.waits) =
                 IF Cardinality(failed) < retryAttempts
                 THEN Cardinality(failed) ELSE retryAttempts - 1
            /\ \A k \in 1..Len(rq.waits) : rq.waits[k] = retryDelay * k
            /\ rq.pc = "delay" => n < retryAttempts /\ rq.outcomes[n] # "ok"
            /\ rq.pc = "thrown"
                 <=> /\ n = retryAttempts
                     /\ failed = 1..retryAttempts
            /\ rq.pc = "thrown" => rq.lastError = Some(rq.outcomes[n])
                                   /\ rq.result = None)
  /\ [][rq.pc \in {"returned", "thrown"} => rq' = rq]_vars

\* the call has returned the body of its third attempt after a failed
\* response and a 2xx response whose body did not parse, having waited
\* 1000 ms and then 2000 ms
RetryScheduleWitness ==
  /\ rq.pc = "returned" /\ rq.attempt = 3
  /\ rq.outcomes = <<"http", "badjson", "ok">>
  /\ rq.waits = <<1000, 2000>>
  /\ rq.result = Some("r2")

\* ---------------------------------------------------- state machine claims
\* the state of the spec's machine a handler activation is in: it is
\* CHECKING_CACHE until the lookup is decided and, on a hit, until the slot
\* write lands; FETCHING from the miss until the slot write lands or the
\* fetch fails
ResolutionState(r) ==
  CASE r.pc = "IDLE" -> "IDLE"
    [] r.pc \in {"cache_get", "cache_cont"} -> "CHECKING_CACHE"
    [] r.pc = "slot_set" /\ r.found = "fresh" -> "CHECKING_CACHE"
    [] r.pc \in {"fetch", "put_get", "put_cont", "put_set"} -> "FETCHING"
    [] r.pc = "slot_set" /\ r.found # "fresh" -> "FETCHING"
    [] r.pc = "RESOLVED" -> "RESOLVED"
    [] r.pc = "ERRORED" -> "ERRORED"

\* C25: a resolution request goes IDLE -> CHECKING_CACHE, then to RESOLVED
\* (hit) or to FETCHING and from there to RESOLVED or ERRORED; it takes no
\* other transition (a handler leaves RESOLVED or ERRORED only as the next
\* request begins), and with every store operation and fetch eventually
\* settling, a request in flight eventually reaches RESOLVED or ERRORED.
ResolutionStateMachine ==
  /\ [][\A i \in ResIds :
          LET a == ResolutionState(res[i])
              b == ResolutionState(res'[i])
          IN  \/ a = b /\ (a \in {"IDLE", "RESOLVED", "ERRORED"} => res'[i] = res[i])
              \/ a = "IDLE" /\ b = "CHECKING_CACHE"
              \/ a = "CHECKING_CACHE" /\ b \in {"RESOLVED", "FETCHING"}
              \/ a = "FETCHING" /\ b \in {"RESOLVED", "ERRORED"}
              \/ /\ a \in {"RESOLVED", "ERRORED"} /\ b = "CHECKING_CACHE"
                 /\ detected' = detected + 1 /\ res'[i].pc = "cache_get"]_vars
  /\ \A i \in ResIds :
       (res[i].pc \notin {"IDLE", "RESOLVED", "ERRORED"})
         ~> (res[i].pc \in {"RESOLVED", "ERRORED"})

\* one request has gone through FETCHING to RESOLVED and the other from
\* CHECKING_CACHE straight to RESOLVED
ResolutionStateMachineWitness ==
  \E i, j \in ResIds :
    /\ res[i].pc = "RESOLVED" /\ res[i].found = "fresh" /\ res[i].attempts = 0
    /\ res[j].pc = "RESOLVED" /\ res[j].fetch = "ok" /\ res[j].attempts = 1

SlotDataIsCacheEntry ==
  store.currentWord # None => store.currentWord[1].data.cachedAt # None

\* ------------------------------------------------- display refresh claims
\* C30 as stated, in the form a finite run refutes: once the hook has sent
\* its WORD_DETECTED for a word that missed the cache, the background
\* resolution of that word has succeeded and written the slot, and every
\* read the hook scheduled has run, the hook's current-word state is the
\* stored slot value.
DisplayDiscoversCompletion ==
  (/\ wd.op = "fetchWordData" /\ wd.pc = "idle" /\ wd.outcome = "sent"
   /\ detected = 1
   /\ res["h1"].pc = "RESOLVED" /\ res["h1"].fetch = "ok"
   /\ timers = 0 /\ gcw.kind = "GET_CURRENT_WORD_DATA" /\ gcw.pc = "done")
    => wd.currentWord = store.currentWord

\* ------------------------------------------------------ provenance claims
\* C29 as stated: an entry appears under a word, or the record under a word
\* changes, only as a successful fetch for that word lands its cache write
\* with the fetched record.
CacheEntriesFromFetchOfWord ==
  [][\A w \in DetectedWords :
       LET old == CacheOrEmpty(store.wordCache)
           new == CacheOrEmpty(store'.wordCache)
       IN  (w \in DOMAIN new /\ (w \notin DOMAIN old \/ new[w].rec # old[w].rec))
             => \E i \in ResIds :
                  /\ res[i].pc = "put_set" /\ res'[i].pc # "put_set"
                  /\ res[i].word = w /\ res[i].fetch = "ok"
                  /\ new[w].rec = res[i].data.rec]_vars

\* C29, amended: the stored map changes only as a setCachedWordData write
\* lands, and the map written is the map that call read with one entry put
\* in: its own word, holding the record its successful fetch returned and
\* the time of the stamping. No entry is modified in place; an entry under
\* another word is written back as it was read.
CacheEntryProvenance ==
  /\ [](\A i \in ResIds :
          res[i].pc \in {"put_get", "put_cont", "put_set"} => res[i].fetch = "ok")
  /\ [][/\ store'.wordCache # store.wordCache
            => \E i \in ResIds :
                 /\ res[i].pc = "put_set" /\ res'[i].pc # "put_set"
                 /\ store'.wordCache = Some(res[i].cache)
        /\ \A i \in ResIds :
             /\ (res[i].pc = "put_get" /\ res'[i].pc = "put_cont")
                  => res'[i].cache = CacheOrEmpty(store.wordCache)
             /\ (res[i].pc = "put_cont" /\ res'[i].pc = "put_set")
                  => /\ DOMAIN res'[i].cache = DOMAIN res[i].cache \cup {res[i].word}
                     /\ res'[i].cache[res[i].word] =
                          [rec |-> res[i].data.rec, cachedAt |-> Some(now)]
                     /\ \A k \in DOMAIN res[i].cache \ {res[i].word} :
                          res'[i].cache[k] = res[i].cache[k]]_vars

\* a resolution of "cat" fetched "r2" and landed its cache write, and the
\* store again holds the entry {"r1", cachedAt: 0} under "cat": a resolution
\* of another word wrote back the map it had read before
CacheEntryProvenanceWitness ==
  /\ \E i \in ResIds :
       /\ res[i].word = cat /\ res[i].fetch = "ok" /\ res[i].data.rec = "r2"
       /\ "wordCache" \in res[i].wrote
  /\ \E j \in ResIds :
       /\ res[j].word # cat /\ "wordCache" \in res[j].wrote
  /\ store.wordCache # None
  /\ cat \in DOMAIN store.wordCache[1]
  /\ store.wordCache[1][cat] = [rec |-> "r1", cachedAt |-> Some(0)]

\* ------------------------------------------------------ detector claims
\* C31: resolution is fire-and-forget for the detector. The step that
\* delivers a WORD_DETECTED to the listener only issues the cache read: the
\* resolution it starts is at its first await, nothing is stored, and a
\* sender that awaited sendMessage is resumed in that very step, with its
\* state as it was (it received no data). No later step of the resolution
\* touches the sender's state: the handler sends no response.
FireAndForget ==
  [][/\ \A i \in ResIds :
          /\ (~InFlight(res[i]) /\ InFlight(res'[i]))
               => /\ res'[i].pc = "cache_get"
                  /\ store' = store
                  /\ wd' # wd
                       => /\ wd.pc = "send" /\ wd'.pc = "idle"
                          /\ wd'.outcome = "sent" /\ ~wd'.isLoading
                          /\ wd'.currentWord = wd.currentWord
          /\ (InFlight(res[i]) /\ res'[i] # res[i])
               => /\ wd' = wd
                  /\ gcw' = gcw
     /\ (wd.pc = "send" /\ wd'.pc # "send")
          => \E i \in ResIds : ~InFlight(res[i]) /\ InFlight(res'[i])]_vars

\* the hook's sendMessage has resolved and the hook is idle while the
\* resolution it started is still waiting for its fetch, and the listener
\* has meanwhile handled a second WORD_DETECTED, whose resolution is at
\* its cache read
FireAndForgetWitness ==
  /\ wd.pc = "idle" /\ wd.outcome = "sent"
  /\ detected = 2
  /\ res["h1"].pc = "fetch"
  /\ res["h2"].pc = "cache_get"
  /\ store.currentWord = None

\* ---------------------------------------------- request credential claims
\* C32: the Authorization token and the body's userId of the request an
\* ADD_FLASHCARD issues belong to the same credential: the token is the ID
\* token of the user whose uid is sent as userId.
AddRequestOneCredential ==
  add.pc = "fetch" => \E u \in Users : add.token = IdToken(u) /\ add.userId = u

\* ------------------------------------------------------- sign-out claims
\* C33: once handleSignOut has run to its end and no sign-in was started
\* since, none of authToken, userId and userEmail holds a value, whatever
\* callbacks and SET_AUTH_DATA handlers are still running.
SignOutClosesGate ==
  (hook.pc = "idle" /\ hook.signedOut)
    => /\ ~Truthy(store.authToken)
       /\ ~Truthy(store.userId)
       /\ ~Truthy(store.userEmail)

MissPathWriteOrder ==
  /\ []((/\ detected = 1 /\ res["h1"].fetch = "ok"
          /\ store.currentWord # None
          /\ store.currentWord[1].word = res["h1"].word)
         => res["h1"].word \in DOMAIN CacheOrEmpty(store.wordCache))
  /\ [][\A i \in ResIds :
          (res[i].fetch = "ok" /\ res[i].pc # "slot_set" /\ res'[i].pc = "slot_set")
            => /\ res[i].pc = "put_set"
               /\ res[i].word \in DOMAIN res[i].cache
               /\ store'.wordCache = Some(res[i].cache)
               /\ store'.currentWord = store.currentWord]_vars

\* the only resolution of the run fetched " cat" and wrote the cache, then
\* the slot: the slot holds the word and the cache holds its entry, stamped
\* no later than the slot value
MissPathWriteOrderWitness ==
  /\ detected = 1
  /\ res["h1"].pc = "RESOLVED" /\ res["h1"].fetch = "ok"
  /\ res["h1"].word = <<" ">> \o cat
  /\ res["h1"].wrote = {"wordCache", "currentWord"}
  /\ store.currentWord # None
  /\ store.currentWord[1].word = res["h1"].word
  /\ res["h1"].word \in DOMAIN CacheOrEmpty(store.wordCache)
  /\ store.wordCache[1][res["h1"].word].cachedAt[1] <= store.currentWord[1].timestamp

\* --------------------------------------------------- store wrapper claims
\* C36: store round trip. A StorageManager.get that did not fail returns
\* the value the store held under the key (the value of the last set that
\* landed), and returns null only when the key was absent or held null.
StoreRoundTrip ==
  (sm.op = "get" /\ sm.pc = "done" /\ ~sm.failed)
    => /\ sm.seen # None => sm.result = sm.seen[1]
       /\ sm.result = "null" => sm.seen \in {None, Some("null")}

\* ------------------------------------------------------- loading claims
\* C38: isLoading tracks in-flight work. The flag is true exactly in the
\* states in which a fetchWordData call or an addWordToCollection call of
\* the hook has started and not finished.
LoadingTracksInFlight ==
  wd.isLoading <=> (wd.pc \in {"cache_get", "slot_set", "send"} \/ awc.pc # "idle")
====
